---- MODULE Spec2Model ----
(***************************************************************************)
(* Tessie MCP server (src/src/index.ts, v1.1.0): the request helper, the   *)
(* auto-wake orchestration (isVehicleAwake / ensureAwake), the command     *)
(* dispatcher (command) and the tool handlers built on them, together     *)
(* with the remote Tessie service, the vehicles and the wall clock they    *)
(* run against.                                                            *)
(*                                                                         *)
(* A tool invocation is a process: its pc names the await at which the     *)
(* handler is suspended.  An outbound request is sent (fetch), answered by *)
(* the remote service, and received by the handler in three separate       *)
(* steps; the vehicles change their wake state on their own and the clock  *)
(* advances in ticks while somebody waits.                                 *)
(***************************************************************************)
EXTENDS Integers, Sequences, FiniteSets, TLC

VARIABLES
    env,        \* process.env: token and default VIN (read on every call)
    veh,        \* remote: actual wake state of every vehicle
    now,        \* Date.now(), milliseconds
    scn,        \* the scenario: what the client calls, how slow the network is
    inv         \* the tool invocations: for each, the handler's local state

vars == <<env, veh, now, scn, inv>>

---------------------------------------------------------------------------
(* Bounds of the model *)

TickMs == 3000              \* granularity of the clock
MaxLatencyTicks == 1        \* a request takes at most this many ticks
MaxTimerLateTicks == 1      \* a timer fires at most this many ticks late
MaxClockMs == 240000        \* the clock stops here
MaxStartGapTicks == 1       \* a second invocation starts at most this long
                            \*   after the first

\* The invocations the server may have in progress at once; a scenario says
\* which of them its client starts.
Procs == {1, 2}
Slots == 1..3

---------------------------------------------------------------------------
(* Program constants *)

WAKE_POLL_INTERVAL_MS == 3000
WAKE_TIMEOUT_MS == 90000

---------------------------------------------------------------------------
(* Values *)

Undefined == "<undefined>"          \* an absent string (env var, argument)
Vins == {"V1", "V2"}
WakeStates == {"awake", "asleep", "waiting_for_sleep"}

JsUndefined == [t |-> "undefined"]
JsBool(b) == [t |-> "bool", v |-> b]
JsNum(n) == [t |-> "num", v |-> n]
JsStr(s) == [t |-> "str", v |-> s]

\* JavaScript truthiness of an optional string
Truthy(s) == s \notin {Undefined, ""}

\* String(value) of a query parameter value
String(x) ==
    CASE x.t = "bool" -> (IF x.v THEN "true" ELSE "false")
      [] x.t = "num" -> ToString(x.v)
      [] x.t = "str" -> x.v
      [] OTHER -> "undefined"

---------------------------------------------------------------------------
(* Configuration *)

NoTokenMessage ==
    <<"TESSIE_API_TOKEN environment variable is required. ",
      "Get your token at https://dash.tessie.com/settings/api">>

\* a getToken that hands on whatever the environment holds
getToken_unchecked(e) == [ok |-> TRUE, value |-> e.TESSIE_API_TOKEN]

getToken(e) ==
    IF ~Truthy(e.TESSIE_API_TOKEN)
    THEN [ok |-> FALSE, error |-> NoTokenMessage]
    ELSE [ok |-> TRUE, value |-> e.TESSIE_API_TOKEN]

getDefaultVin(e) == e.TESSIE_DEFAULT_VIN

\* a default that hands on whatever the variable holds
getDefaultDistanceFormat_raw(e) ==
    LET v == e.TESSIE_DISTANCE_FORMAT
    IN  IF v # Undefined THEN JsStr(v) ELSE JsUndefined

\* unit preference defaults, lines 49-65
getDefaultDistanceFormat(e) ==
    LET v == e.TESSIE_DISTANCE_FORMAT
    IN  IF v = "mi" \/ v = "km" THEN JsStr(v) ELSE JsUndefined

getDefaultTempFormat(e) ==
    LET v == e.TESSIE_TEMP_FORMAT
    IN  IF v = "f" \/ v = "c" THEN JsStr(v) ELSE JsUndefined

getDefaultPressureFormat(e) ==
    LET v == e.TESSIE_PRESSURE_FORMAT
    IN  IF v = "psi" \/ v = "bar" \/ v = "kpa" THEN JsStr(v) ELSE JsUndefined

\* x ?? y
Nullish(x, y) == IF x = JsUndefined THEN y ELSE x

---------------------------------------------------------------------------
(* HTTP helpers *)

NoParams == <<>>                    \* params omitted
NoBody == <<>>                      \* body omitted

\* a loop that sets every entry, absent or not
QueryString_everyEntry(params) ==
    [k \in 1..Len(params) |-> <<params[k][1], String(params[k][2])>>]

\* the loop over Object.entries(params): absent values are skipped
QueryString(params) ==
    LET present == SelectSeq(params, LAMBDA kv : kv[2] # JsUndefined)
    IN  [k \in 1..Len(present) |-> <<present[k][1], String(present[k][2])>>]

\* tessieRequest up to the fetch call: either it throws before any I/O or
\* it hands exactly one request to fetch
tessieRequest(e, method, path, params, body) ==
    LET tok == getToken(e)
    IN  IF ~tok.ok
        THEN [sent |-> FALSE, error |-> tok.error]
        ELSE [sent |-> TRUE,
              req |-> [method |-> method,
                       path |-> path,
                       query |-> QueryString(params),
                       auth |-> <<"Bearer ", tok.value>>,
                       body |-> IF method = "POST" THEN body ELSE NoBody]]

get(e, path, params) == tessieRequest(e, "GET", path, params, NoBody)

post(e, path, params, body) == tessieRequest(e, "POST", path, params, body)

ApiErrorMessage(status, text) ==
    <<"Tessie API error ", ToString(status), ": ", text>>

\* tessieRequest after the fetch call: the promise it returns settles
Settle(resp) ==
    IF "neterr" \in DOMAIN resp
    THEN [ok |-> FALSE, error |-> resp.neterr]
    ELSE IF ~(resp.status \in 200..299)
    THEN [ok |-> FALSE, error |-> ApiErrorMessage(resp.status, resp.text)]
    ELSE IF "data" \in DOMAIN resp
    THEN [ok |-> TRUE, value |-> resp.data]
    ELSE [ok |-> TRUE, value |-> [raw |-> resp.text]]

---------------------------------------------------------------------------
(* Auto-wake helpers *)

\* a check that takes every status but "asleep" for awake
isVehicleAwake_notAsleep(data) ==
    IF "status" \in DOMAIN data THEN data.status # "asleep" ELSE FALSE

\* a check that takes any status the service reports for awake
isVehicleAwake_anyStatus(data) == "status" \in DOMAIN data

\* data?.status === "awake"
isVehicleAwake(data) ==
    IF "status" \in DOMAIN data THEN data.status = "awake" ELSE FALSE

WakeTimeoutMessage(vin) ==
    <<"Vehicle ", vin, " did not wake within ",
      ToString(WAKE_TIMEOUT_MS \div 1000), "s. ",
      "Try calling wake_vehicle manually and retrying.">>

---------------------------------------------------------------------------
(* Zod schemas *)

VinRequiredMessage ==
    <<"VIN is required. Provide it as a parameter or set ",
      "TESSIE_DEFAULT_VIN environment variable.">>

\* a schema in which the configured default wins over the argument
VinSchema_defaultFirst(val, e) ==
    LET vin == IF Truthy(getDefaultVin(e)) THEN getDefaultVin(e) ELSE val
    IN  IF ~Truthy(vin)
        THEN [ok |-> FALSE, error |-> VinRequiredMessage]
        ELSE [ok |-> TRUE, value |-> vin]

\* a schema that falls back to the default only when no argument is given
VinSchema_nullish(val, e) ==
    LET vin == IF val # Undefined THEN val ELSE getDefaultVin(e)
    IN  IF ~Truthy(vin)
        THEN [ok |-> FALSE, error |-> VinRequiredMessage]
        ELSE [ok |-> TRUE, value |-> vin]

VinSchema(val, e) ==
    LET vin == IF Truthy(val) THEN val ELSE getDefaultVin(e)
    IN  IF ~Truthy(vin)
        THEN [ok |-> FALSE, error |-> VinRequiredMessage]
        ELSE [ok |-> TRUE, value |-> vin]

\* z.enum([...]).optional(), lines 197-198 and 385
EnumSchema(val, allowed) ==
    IF val = JsUndefined THEN [ok |-> TRUE]
    ELSE IF val.t = "str" /\ val.v \in allowed THEN [ok |-> TRUE]
    ELSE [ok |-> FALSE, issue |-> "Invalid enum value"]

DistanceFormatSchema(val) == EnumSchema(val, {"mi", "km"})
TemperatureFormatSchema(val) == EnumSchema(val, {"f", "c"})
PressureFormatSchema(val) == EnumSchema(val, {"bar", "kpa", "psi"})

\* the failure of a tool call whose arguments do not satisfy the schema
InvalidArgumentsMessage(tool, issue) ==
    <<"Invalid arguments for tool ", tool, ": ", issue>>

Valid == [ok |-> TRUE]

\* a temperature schema without its upper limit
TemperatureSchema_noMax(val) ==
    IF val.t # "num" THEN [ok |-> FALSE, issue |-> "Required"]
    ELSE IF val.v < 15
    THEN [ok |-> FALSE,
          issue |-> "Number must be greater than or equal to 15"]
    ELSE Valid

\* set_temperatures, line 714: z.number().min(15).max(28)
TemperatureSchema(val) ==
    IF val.t # "num" THEN [ok |-> FALSE, issue |-> "Required"]
    ELSE IF val.v < 15
    THEN [ok |-> FALSE,
          issue |-> "Number must be greater than or equal to 15"]
    ELSE IF val.v > 28
    THEN [ok |-> FALSE,
          issue |-> "Number must be less than or equal to 28"]
    ELSE Valid

---------------------------------------------------------------------------
(* Local state of one tool invocation *)

NoReq == [none |-> TRUE]            \* no fetch outstanding at this position
NoResp == [none |-> TRUE]           \* the fetch has not been answered yet
Pending == [pending |-> TRUE]       \* an allSettled branch not yet settled
NoResult == [pending |-> TRUE]      \* the handler has not finished
NoError == <<>>
NoCall == [tool |-> "-", arg_vin |-> Undefined, vin |-> Undefined]

Fresh(p) ==
    [pc |-> p,                      \* the await the handler is suspended at
     call |-> NoCall,               \* tool, arguments, resolved VIN
     inflight |-> [s \in Slots |-> NoReq],
     branch |-> [s \in Slots |-> Pending],
     log |-> <<>>,                  \* every request handed to fetch
     orch |-> "none",               \* state of the wake orchestration run
     deadline |-> 0,                \* ensureAwake's `deadline`
     wakeAt |-> 0,                  \* expiry of the pending setTimeout
     result |-> NoResult,           \* what the handler returned or threw
     \* observations of the run
     orchError |-> NoError,         \* the error ensureAwake threw
     pollStart |-> -1,              \* when the wake command returned
     sleeps |-> 0,                  \* poll waits started
     lastSleepAt |-> -1,            \* when the last poll wait began
     endedAt |-> -1,                \* when the handler finished
     served |-> [s \in Slots |-> NoResp],   \* answers to the fan-out reads
     vehAtAnswer |-> "-",           \* in a resumption: the vehicle's state
                                    \*   when the status answer was produced
     changed |-> FALSE,             \* in a resumption: the vehicle changed
                                    \*   after an awake answer was produced
     cmdVeh |-> "-",                \* vehicle state when the command was sent
     cmdVehAtAnswer |-> "-",        \* vehAtAnswer when the command was sent
     cmdChanged |-> FALSE]          \* changed when the command was sent

\* the world an invocation step reads
World == [env |-> env, now |-> now, veh |-> veh]

LogEntry(req) == [method |-> req.method, path |-> req.path,
                  query |-> req.query, body |-> req.body,
                  result |-> "pending"]

\* a request handed to fetch, not answered yet
Flight(req, t, idx) ==
    [req |-> req, sentAt |-> t, resp |-> NoResp, idx |-> idx,
     vehAt |-> "-", changed |-> FALSE]

\* the handler throws: the invocation fails with this error
Throw(L, err, w) ==
    [L EXCEPT !.pc = "failed",
              !.result = [isError |-> TRUE, error |-> err],
              !.endedAt = w.now]

\* return { content: [{ type: "text", text: JSON.stringify(data, null, 2) }] }
Return(L, data, w) ==
    [L EXCEPT !.pc = "done",
              !.result = [isError |-> FALSE,
                          content |-> <<[type |-> "text", json |-> data]>>],
              !.endedAt = w.now]

\* fetch(url, fetchOptions): the request goes out and the caller is
\* suspended at `label`
Fetch(L, req, label, w) ==
    [L EXCEPT !.pc = label,
              !.inflight[1] = Flight(req, w.now, Len(L.log) + 1),
              !.log = Append(@, LogEntry(req))]

\* `await tessieRequest(...)` in a handler: the request goes out, or
\* tessieRequest threw before the fetch and the handler throws
Await(L, r, label, w) ==
    IF r.sent THEN Fetch(L, r.req, label, w) ELSE Throw(L, r.error, w)

StatusPath(vin) == <<vin, "status">>
WakePath(vin) == <<vin, "wake">>

Last(path) == IF Len(path) = 0 THEN "" ELSE path[Len(path)]
IsStatusCheck(e) == e.method = "GET" /\ Last(e.path) = "status"
IsWake(e) == e.method = "POST" /\ Last(e.path) = "wake"
IsCommand(e) == e.method = "POST" /\ Len(e.path) = 3 /\ e.path[2] = "command"

---------------------------------------------------------------------------
(* ensureAwake and command, cut at their awaits *)

\* command(), line 172: return post(commandPath, params)
command_post(L, w) ==
    LET L1 == [L EXCEPT !.cmdVeh = w.veh[L.call.vin],
                        !.cmdVehAtAnswer = L.vehAtAnswer,
                        !.cmdChanged = L.changed]
    IN  Await(L1, post(w.env, L.call.path, L.call.params, NoBody),
              "command", w)

\* ensureAwake returned: back in its caller, command (line 172) or the
\* wake_vehicle handler (line 575)
ensureAwake_return(L, w) ==
    LET L1 == [L EXCEPT !.orch = "Ready"]
    IN  IF L.call.tool = "wake_vehicle"
        THEN Return(L1, [status |-> "awake"], w)
        ELSE command_post(L1, w)

\* a dispatcher that catches the failure of ensureAwake and posts anyway
ensureAwake_throw_caught(L, state, err, w) ==
    LET L1 == [L EXCEPT !.orch = state, !.orchError = err]
    IN  IF L.call.tool = "wake_vehicle" THEN Throw(L1, err, w)
        ELSE command_post(L1, w)

\* ensureAwake threw: neither command (line 171) nor the wake_vehicle
\* handler (line 574) catches, so the invocation fails with the same error
ensureAwake_throw(L, state, err, w) ==
    Throw([L EXCEPT !.orch = state, !.orchError = err], err, w)

\* a request made inside ensureAwake
ensureAwake_await(L, r, label, w) ==
    IF r.sent THEN Fetch(L, r.req, label, w)
    ELSE ensureAwake_throw(L, "Failed", r.error, w)

\* isVehicleAwake(vin), line 135: the status request goes out
isVehicleAwake_get(L, label, w) ==
    ensureAwake_await(L, get(w.env, StatusPath(L.call.vin), NoParams),
                      label, w)

\* ensureAwake(vin), line 146: the first status check goes out
ensureAwake(L, w) ==
    isVehicleAwake_get([L EXCEPT !.orch = "Check"], "first_check", w)

\* a dispatcher that posts the command without the wake gate
command_ungated(L, w) == command_post(L, w)

\* command(vin, commandPath, params), line 171: await ensureAwake(vin)
command(L, w) == ensureAwake(L, w)

\* a loop that gives up when the next wait would end past the deadline
ensureAwake_loop_early(L, w) ==
    IF w.now + WAKE_POLL_INTERVAL_MS < L.deadline
    THEN [L EXCEPT !.pc = "sleep",
                   !.wakeAt = w.now + WAKE_POLL_INTERVAL_MS,
                   !.sleeps = @ + 1,
                   !.lastSleepAt = w.now]
    ELSE ensureAwake_throw(L, "TimedOut", WakeTimeoutMessage(L.call.vin), w)

\* a loop whose test is `<=`: one more iteration at the deadline itself
ensureAwake_loop_inclusive(L, w) ==
    IF w.now <= L.deadline
    THEN [L EXCEPT !.pc = "sleep",
                   !.wakeAt = w.now + WAKE_POLL_INTERVAL_MS,
                   !.sleeps = @ + 1,
                   !.lastSleepAt = w.now]
    ELSE ensureAwake_throw(L, "TimedOut", WakeTimeoutMessage(L.call.vin), w)

\* a loop without the deadline: while (true)
ensureAwake_loop_forever(L, w) ==
    [L EXCEPT !.pc = "sleep",
              !.wakeAt = w.now + WAKE_POLL_INTERVAL_MS,
              !.sleeps = @ + 1,
              !.lastSleepAt = w.now]

\* lines 152-160: the loop test, then the wait or the timeout error
ensureAwake_loop(L, w) ==
    IF w.now < L.deadline
    THEN [L EXCEPT !.pc = "sleep",
                   !.wakeAt = w.now + WAKE_POLL_INTERVAL_MS,
                   !.sleeps = @ + 1,
                   !.lastSleepAt = w.now]
    ELSE ensureAwake_throw(L, "TimedOut", WakeTimeoutMessage(L.call.vin), w)

\* an ensureAwake without the fast path: the wake command is always sent
ensureAwake_afterCheck_alwaysWake(L, out, w) ==
    IF ~out.ok THEN ensureAwake_throw(L, "Failed", out.error, w)
    ELSE ensureAwake_await([L EXCEPT !.orch = "Waking"],
                           post(w.env, WakePath(L.call.vin), NoParams, NoBody),
                           "wake", w)

\* lines 146-149: the first check settled
ensureAwake_afterCheck(L, out, w) ==
    IF ~out.ok THEN ensureAwake_throw(L, "Failed", out.error, w)
    ELSE IF isVehicleAwake(out.value) THEN ensureAwake_return(L, w)
    ELSE ensureAwake_await([L EXCEPT !.orch = "Waking"],
                           post(w.env, WakePath(L.call.vin), NoParams, NoBody),
                           "wake", w)

\* a wake command that is fired and forgotten: its failure is dropped too
ensureAwake_afterWake_forget(L, out, w) ==
    ensureAwake_loop([L EXCEPT !.orch = "Polling",
                               !.deadline = w.now + WAKE_TIMEOUT_MS,
                               !.pollStart = w.now], w)

\* a loop that checks first and waits afterwards (do ... while)
ensureAwake_afterWake_checkFirst(L, out, w) ==
    IF ~out.ok THEN ensureAwake_throw(L, "Failed", out.error, w)
    ELSE isVehicleAwake_get([L EXCEPT !.orch = "Polling",
                                      !.deadline = w.now + WAKE_TIMEOUT_MS,
                                      !.pollStart = w.now],
                            "poll_check", w)

\* a deadline one poll interval further away
ensureAwake_afterWake_longDeadline(L, out, w) ==
    IF ~out.ok THEN ensureAwake_throw(L, "Failed", out.error, w)
    ELSE ensureAwake_loop(
             [L EXCEPT !.orch = "Polling",
                       !.deadline = w.now + WAKE_TIMEOUT_MS
                                          + WAKE_POLL_INTERVAL_MS,
                       !.pollStart = w.now], w)

\* lines 149-152: the wake command settled, its value is dropped
ensureAwake_afterWake(L, out, w) ==
    IF ~out.ok THEN ensureAwake_throw(L, "Failed", out.error, w)
    ELSE ensureAwake_loop([L EXCEPT !.orch = "Polling",
                                    !.deadline = w.now + WAKE_TIMEOUT_MS,
                                    !.pollStart = w.now], w)

\* lines 153-154: the timer fired, the poll's status check goes out
ensureAwake_afterSleep(L, w) ==
    isVehicleAwake_get(L, "poll_check", w)

\* a poll that looks at the deadline before it looks at the answer
ensureAwake_afterPoll_deadlineFirst(L, out, w) ==
    IF ~out.ok THEN ensureAwake_throw(L, "Failed", out.error, w)
    ELSE IF w.now >= L.deadline
    THEN ensureAwake_throw(L, "TimedOut", WakeTimeoutMessage(L.call.vin), w)
    ELSE IF isVehicleAwake(out.value) THEN ensureAwake_return(L, w)
    ELSE ensureAwake_loop(L, w)

\* a poll that takes a failed status check for "not awake yet"
ensureAwake_afterPoll_swallow(L, out, w) ==
    IF out.ok /\ isVehicleAwake(out.value) THEN ensureAwake_return(L, w)
    ELSE ensureAwake_loop(L, w)

\* lines 154-155: a poll's status check settled
ensureAwake_afterPoll(L, out, w) ==
    IF ~out.ok THEN ensureAwake_throw(L, "Failed", out.error, w)
    ELSE IF isVehicleAwake(out.value) THEN ensureAwake_return(L, w)
    ELSE ensureAwake_loop(L, w)

---------------------------------------------------------------------------
(* Tool handlers (server.tool registrations), run up to their first await *)

\* options that wait for completion unless told otherwise
CommandOptions_waitByDefault(a) ==
    <<<<"wait_for_completion",
        IF a.wait_for_completion = JsUndefined THEN JsBool(TRUE)
        ELSE a.wait_for_completion>>,
      <<"max_attempts", a.max_attempts>>>>

CommandOptions(a) ==
    <<<<"wait_for_completion", a.wait_for_completion>>,
      <<"max_attempts", a.max_attempts>>>>

\* a handler of the form: const data = await <request>; return content(data)
AwaitData(L, r, w) == Await(L, r, "data", w)

get_vehicle_state(a, L, w) ==
    AwaitData(L, get(w.env, <<L.call.vin, "state">>,
                     <<<<"use_cache", a.use_cache>>>>), w)

get_vehicle_status(a, L, w) ==
    AwaitData(L, get(w.env, <<L.call.vin, "status">>, NoParams), w)

\* a get_battery that wakes the vehicle before it reads
get_battery_waking(a, L, w) == ensureAwake(L, w)

get_battery(a, L, w) ==
    AwaitData(L, get(w.env, <<L.call.vin, "battery">>, NoParams), w)

get_location(a, L, w) ==
    AwaitData(L, get(w.env, <<L.call.vin, "location">>, NoParams), w)

\* a fan-out that lists the location read before the battery read
get_full_status_fanout_swapped(L, w) ==
    LET vin == L.call.vin
        rs == <<get(w.env, <<vin, "location">>, NoParams),
                get(w.env, <<vin, "battery">>, NoParams),
                get(w.env, <<vin, "state">>,
                    <<<<"use_cache", JsBool(TRUE)>>>>)>>
        sent == SelectSeq(rs, LAMBDA r : r.sent)
    IN  [L EXCEPT
           !.pc = "all_settled",
           !.inflight = [s \in Slots |->
               IF rs[s].sent THEN Flight(rs[s].req, w.now, s) ELSE NoReq],
           !.branch = [s \in Slots |->
               IF rs[s].sent THEN Pending
               ELSE [status |-> "rejected", reason |-> rs[s].error]],
           !.log = [k \in 1..Len(sent) |-> LogEntry(sent[k].req)]]

\* get_full_status, lines 428-432: the three reads start together
get_full_status_fanout(L, w) ==
    LET vin == L.call.vin
        rs == <<get(w.env, <<vin, "battery">>, NoParams),
                get(w.env, <<vin, "location">>, NoParams),
                get(w.env, <<vin, "state">>,
                    <<<<"use_cache", JsBool(TRUE)>>>>)>>
        sent == SelectSeq(rs, LAMBDA r : r.sent)
    IN  [L EXCEPT
           !.pc = "all_settled",
           !.inflight = [s \in Slots |->
               IF rs[s].sent THEN Flight(rs[s].req, w.now, s) ELSE NoReq],
           !.branch = [s \in Slots |->
               IF rs[s].sent THEN Pending
               ELSE [status |-> "rejected", reason |-> rs[s].error]],
           !.log = [k \in 1..Len(sent) |-> LogEntry(sent[k].req)]]

\* one slot of the combined object, lines 435-437
SlotOf(settled) ==
    IF settled.status = "fulfilled" THEN settled.value
    ELSE [error |-> settled.reason]

\* a get_full_status built on Promise.all: the first rejection is thrown
get_full_status_result_all(L, w) ==
    LET failed == {s \in Slots : L.branch[s].status = "rejected"}
    IN  IF failed # {}
        THEN Throw(L, L.branch[CHOOSE s \in failed : \A t \in failed : s <= t]
                        .reason, w)
        ELSE Return(L, [battery |-> L.branch[1].value,
                        location |-> L.branch[2].value,
                        state |-> L.branch[3].value], w)

\* get_full_status, lines 434-440: all three branches have settled
get_full_status_result(L, w) ==
    Return(L, [battery |-> SlotOf(L.branch[1]),
               location |-> SlotOf(L.branch[2]),
               state |-> SlotOf(L.branch[3])], w)

AllSettled(L) == \A s \in Slots : L.branch[s] # Pending

get_full_status(a, L, w) ==
    LET L1 == get_full_status_fanout(L, w)
    IN  IF AllSettled(L1) THEN get_full_status_result(L1, w) ELSE L1

get_tire_pressure(a, L, w) ==
    AwaitData(L, get(w.env, <<L.call.vin, "tire_pressure">>,
        <<<<"pressure_format",
            Nullish(a.pressure_format, getDefaultPressureFormat(w.env))>>,
          <<"from", a.from>>,
          <<"to", a.to>>>>), w)

get_drives(a, L, w) ==
    AwaitData(L, get(w.env, <<L.call.vin, "drives">>,
        <<<<"from", a.from>>,
          <<"to", a.to>>,
          <<"distance_format",
            Nullish(a.distance_format, getDefaultDistanceFormat(w.env))>>,
          <<"temperature_format",
            Nullish(a.temperature_format, getDefaultTempFormat(w.env))>>,
          <<"timezone", a.timezone>>,
          <<"tag", a.tag>>,
          <<"exclude_tag", a.exclude_tag>>,
          <<"minimum_distance", a.minimum_distance>>,
          <<"limit", a.limit>>>>), w)

set_drive_tag(a, L, w) ==
    AwaitData(L, post(w.env, <<L.call.vin, "drives", "set_tag">>, NoParams,
                      <<<<"drives", a.drives>>, <<"tag", a.tag>>>>), w)

set_charge_cost(a, L, w) ==
    AwaitData(L, post(w.env, <<L.call.vin, "charges", a.charge_id, "set_cost">>,
                      <<<<"cost", a.cost>>>>, NoBody), w)

\* a wake_vehicle that posts the wake command and reports awake at once
wake_vehicle_optimistic(a, L, w) ==
    LET r == post(w.env, <<L.call.vin, "wake">>, NoParams, NoBody)
        L1 == [L EXCEPT !.orch = "Ready"]
    IN  IF r.sent
        THEN Return([L1 EXCEPT !.log = <<LogEntry(r.req)>>],
                    [status |-> "awake"], w)
        ELSE Throw(L, r.error, w)

wake_vehicle(a, L, w) == ensureAwake(L, w)

\* a lock whose command path is built from the configured default VIN
lock_defaultPath(a, L, w) ==
    LET d == getDefaultVin(w.env)
        target == IF Truthy(d) THEN d ELSE L.call.vin
    IN  command([L EXCEPT !.call.path = <<target, "command", "lock">>,
                          !.call.params = CommandOptions(a)], w)

lock(a, L, w) ==
    command([L EXCEPT !.call.path = <<L.call.vin, "command", "lock">>,
                      !.call.params = CommandOptions(a)], w)

\* a start_climate that posts directly, without the dispatcher
start_climate_direct(a, L, w) ==
    AwaitData(L, post(w.env, <<L.call.vin, "command", "start_climate">>,
                      CommandOptions(a), NoBody), w)

start_climate(a, L, w) ==
    command([L EXCEPT !.call.path = <<L.call.vin, "command", "start_climate">>,
                      !.call.params = CommandOptions(a)], w)

set_temperatures(a, L, w) ==
    command([L EXCEPT !.call.path =
                          <<L.call.vin, "command", "set_temperatures">>,
                      !.call.params =
                          <<<<"temperature", a.temperature>>>>
                              \o CommandOptions(a)], w)

CommandTools == {"lock", "start_climate", "set_temperatures"}
ReadTools == {"get_vehicle_state", "get_vehicle_status", "get_battery",
              "get_location"}
PostTools == {"set_drive_tag", "set_charge_cost"}
FormatTools == {"get_drives", "get_tire_pressure"}
VehicleTools ==
    CommandTools \cup ReadTools \cup PostTools \cup FormatTools
        \cup {"wake_vehicle", "get_full_status"}

\* the registry: the handler registered under each tool name
Handler(tool, a, L, w) ==
    CASE tool = "get_vehicle_state" -> get_vehicle_state(a, L, w)
      [] tool = "get_vehicle_status" -> get_vehicle_status(a, L, w)
      [] tool = "get_battery" -> get_battery(a, L, w)
      [] tool = "get_location" -> get_location(a, L, w)
      [] tool = "get_full_status" -> get_full_status(a, L, w)
      [] tool = "set_drive_tag" -> set_drive_tag(a, L, w)
      [] tool = "set_charge_cost" -> set_charge_cost(a, L, w)
      [] tool = "wake_vehicle" -> wake_vehicle(a, L, w)
      [] tool = "lock" -> lock(a, L, w)
      [] tool = "start_climate" -> start_climate(a, L, w)
      [] tool = "set_temperatures" -> set_temperatures(a, L, w)
      [] tool = "get_drives" -> get_drives(a, L, w)
      [] tool = "get_tire_pressure" -> get_tire_pressure(a, L, w)

\* the constraints a tool's schema puts on its arguments besides the VIN
ArgsSchema(tool, a) ==
    CASE tool = "set_temperatures" -> TemperatureSchema(a.temperature)
      [] tool = "get_drives" ->
            IF ~DistanceFormatSchema(a.distance_format).ok
            THEN DistanceFormatSchema(a.distance_format)
            ELSE TemperatureFormatSchema(a.temperature_format)
      [] tool = "get_tire_pressure" -> PressureFormatSchema(a.pressure_format)
      [] OTHER -> Valid

\* a tool call arrives: the schema is applied (VinSchema resolves the VIN or
\* throws, a constraint that fails rejects the call), then the handler runs
ToolCall(tool, a, L, w) ==
    LET v == VinSchema(a.vin, w.env)
        c == [tool |-> tool, arg_vin |-> a.vin,
              vin |-> IF v.ok THEN v.value ELSE Undefined,
              path |-> <<>>, params |-> NoParams, args |-> a]
        L1 == [L EXCEPT !.call = c]
        ok == ArgsSchema(tool, a)
    IN  IF ~v.ok THEN Throw(L1, v.error, w)
        ELSE IF ~ok.ok
        THEN Throw(L1, InvalidArgumentsMessage(tool, ok.issue), w)
        ELSE Handler(tool, a, L1, w)

---------------------------------------------------------------------------
(* Resource handlers (server.server.setRequestHandler) *)

\* A resource URI is written as the sequence of the segments that follow
\* "tessie://", separated by "/".
VehiclesUri == <<"vehicles">>
Front(segs) == SubSeq(segs, 1, Len(segs) - 1)

\* uri.match(/^tessie:\/\/(.+)\/<leaf>$/): the last segment is the leaf and
\* at least one character precedes its slash
UriMatch(segs, leaf) ==
    /\ Len(segs) >= 2
    /\ segs[Len(segs)] = leaf
    /\ Front(segs) # <<"">>

UnknownResourceMessage(segs) == <<"Unknown resource URI: ", "tessie://", segs>>

ResourceDone(L, value, w) ==
    [L EXCEPT !.pc = "done", !.result = value, !.endedAt = w.now]

ResourceCall(kind, segs) ==
    [tool |-> kind, arg_vin |-> Undefined, vin |-> Undefined,
     path |-> <<>>, params |-> NoParams, args |-> [uri |-> segs]]

\* a listing that offers the per-vehicle resources whenever the variable is
\* set, even to the empty string
ListResources_ifSet(L, w) ==
    LET defaultVin == getDefaultVin(w.env)
        fleet == <<[uri |-> VehiclesUri, name |-> "All Vehicles"]>>
        own == <<[uri |-> <<defaultVin, "state">>, name |-> "Vehicle State"],
                 [uri |-> <<defaultVin, "status">>, name |-> "Vehicle Status"]>>
        L1 == [L EXCEPT !.call = ResourceCall("resources/list", <<>>)]
    IN  ResourceDone(L1, [resources |-> IF defaultVin # Undefined
                                        THEN fleet \o own ELSE fleet], w)

\* ListResourcesRequestSchema handler, lines 212-241
ListResources(L, w) ==
    LET defaultVin == getDefaultVin(w.env)
        fleet == <<[uri |-> VehiclesUri, name |-> "All Vehicles"]>>
        own == <<[uri |-> <<defaultVin, "state">>, name |-> "Vehicle State"],
                 [uri |-> <<defaultVin, "status">>, name |-> "Vehicle Status"]>>
        L1 == [L EXCEPT !.call = ResourceCall("resources/list", <<>>)]
    IN  ResourceDone(L1, [resources |-> IF Truthy(defaultVin)
                                        THEN fleet \o own ELSE fleet], w)

\* ReadResourceRequestSchema handler, lines 243-293, up to its await
ReadResource(segs, L, w) ==
    LET L1 == [L EXCEPT !.call = ResourceCall("resources/read", segs)]
    IN  IF segs = VehiclesUri
        THEN Await(L1, get(w.env, <<"vehicles">>, NoParams), "resource", w)
        ELSE IF UriMatch(segs, "state")
        THEN Await(L1, get(w.env, Front(segs) \o <<"state">>,
                           <<<<"use_cache", JsBool(TRUE)>>>>), "resource", w)
        ELSE IF UriMatch(segs, "status")
        THEN Await(L1, get(w.env, Front(segs) \o <<"status">>, NoParams),
                   "resource", w)
        ELSE Throw(L1, UnknownResourceMessage(segs), w)

\* return { contents: [{ uri, mimeType, text: JSON.stringify(data) }] }
ReadResource_contents(L, out, w) ==
    IF out.ok
    THEN ResourceDone(L, [contents |-> <<[uri |-> L.call.args.uri,
                                          mimeType |-> "application/json",
                                          json |-> out.value]>>], w)
    ELSE Throw(L, out.error, w)

---------------------------------------------------------------------------
(* Inputs and scenarios *)

NoArgs(vin) ==
    [vin |-> vin, wait_for_completion |-> JsUndefined,
     max_attempts |-> JsUndefined, use_cache |-> JsUndefined,
     temperature |-> JsUndefined,
     drives |-> "", tag |-> "", charge_id |-> "", cost |-> JsUndefined]

HttpErrors == {[status |-> 503, text |-> "service unavailable"],
               [status |-> 500, text |-> "internal error"]}

\* Any tool, any way of giving the VIN, any configuration, over a network
\* that answers at once: time passes only in the poll waits.
Wide ==
    [name |-> "wide",
     procs |-> {1},
     tools |-> VehicleTools,
     changeUntilMs |-> MaxClockMs,
     tokens |-> {Undefined, "", "tok"},
     defaultVins |-> {Undefined, "", "V1"},
     vinArgs |-> {Undefined, "", "V2"},
     commandTools |-> {"lock", "start_climate"},
     temperatures |-> {JsUndefined, JsNum(14), JsNum(15), JsNum(28),
                       JsNum(30)},
     resourceUris |-> {<<"vehicles">>, <<"V1", "state">>, <<"V2", "status">>,
                       <<"V1", "charge">>, <<"", "state">>, <<"status">>},
     envFormats |-> <<{Undefined}, {Undefined}, {Undefined}>>,
     argFormats |-> <<{JsUndefined}, {JsUndefined}, {JsUndefined}>>,
     argNumbers |-> {JsUndefined},
     argTags |-> {JsUndefined},
     options |-> {<<JsUndefined, JsUndefined>>, <<JsBool(TRUE), JsNum(3)>>},
     wakeStates |-> WakeStates,
     httpErrors |-> HttpErrors,
     oddAnswers |-> TRUE,
     maxStartLatencyTicks |-> 0,
     maxLatencyTicks |-> 0,
     maxTimerLateTicks |-> 0]

\* One configuration and one command tool, a vehicle that is asleep or awake
\* and a service that answers with the status or with a 503, over a network
\* whose requests take up to MaxLatencyTicks, once the wake command has
\* returned, and whose timers fire up to MaxTimerLateTicks late.
Timed ==
    [name |-> "timed",
     procs |-> {1},
     tools |-> VehicleTools,
     changeUntilMs |-> MaxClockMs,
     tokens |-> {"tok"},
     defaultVins |-> {"V1"},
     vinArgs |-> {Undefined},
     commandTools |-> {"lock"},
     temperatures |-> {JsNum(30)},
     resourceUris |-> {<<"vehicles">>},
     envFormats |-> <<{Undefined}, {Undefined}, {Undefined}>>,
     argFormats |-> <<{JsUndefined}, {JsUndefined}, {JsUndefined}>>,
     argNumbers |-> {JsUndefined},
     argTags |-> {JsUndefined},
     options |-> {<<JsUndefined, JsUndefined>>},
     wakeStates |-> {"asleep", "awake"},
     httpErrors |-> {[status |-> 503, text |-> "service unavailable"]},
     oddAnswers |-> FALSE,
     maxStartLatencyTicks |-> 0,
     maxLatencyTicks |-> MaxLatencyTicks,
     maxTimerLateTicks |-> MaxTimerLateTicks]

\* One configuration but for the unit preferences, which are unset, allowed
\* or not allowed values; the read tools that take a format are called with
\* and without it, and with absent, zero and other filter values.
Units ==
    [name |-> "units",
     procs |-> {1},
     tools |-> VehicleTools,
     changeUntilMs |-> MaxClockMs,
     tokens |-> {"tok"},
     defaultVins |-> {"V1"},
     vinArgs |-> {Undefined},
     commandTools |-> {},
     temperatures |-> {},
     resourceUris |-> {},
     envFormats |-> <<{Undefined, "km", "miles"}, {Undefined, "c", "C"},
                      {Undefined, "kpa", ""}>>,
     argFormats |-> <<{JsUndefined, JsStr("mi"), JsStr("yd")},
                      {JsUndefined, JsStr("f")},
                      {JsUndefined, JsStr("bar")}>>,
     argNumbers |-> {JsUndefined, JsNum(0), JsNum(5)},
     argTags |-> {JsUndefined, JsStr("work")},
     options |-> {<<JsUndefined, JsUndefined>>},
     wakeStates |-> {"asleep"},
     httpErrors |-> {[status |-> 503, text |-> "service unavailable"]},
     oddAnswers |-> FALSE,
     maxStartLatencyTicks |-> 0,
     maxLatencyTicks |-> 0,
     maxTimerLateTicks |-> 0]

\* The configuration of Timed with the explicit wake tool as well, over a
\* network that answers within the tick and timers that fire on time.
Live ==
    [Timed EXCEPT !.name = "live", !.maxLatencyTicks = 0,
                  !.maxTimerLateTicks = 0]

\* The configuration of Timed with a vehicle that never wakes: the longest
\* runs of the orchestration, over a network on which the first status
\* check and the wake command are slow as well.
Slow ==
    [Timed EXCEPT !.name = "slow", !.wakeStates = {"asleep"},
                  !.maxStartLatencyTicks = MaxLatencyTicks]

\* Two invocations of the lock command in progress at once, on the same
\* vehicle or on two; a vehicle wakes up or falls asleep while the
\* invocations start, or stays as it is, and the service answers with the
\* status or with a 503.
Pair ==
    [Live EXCEPT !.name = "pair", !.procs = {1, 2}, !.tools = {"lock"},
                 !.changeUntilMs = (MaxStartGapTicks + 1) * TickMs,
                 !.vinArgs = {Undefined, "V2"}, !.temperatures = {},
                 !.resourceUris = {}]

Scenarios == {Wide, Timed, Units, Slow}

CommandArgs ==
    {[NoArgs(v) EXCEPT !.wait_for_completion = o[1], !.max_attempts = o[2]] :
        v \in scn.vinArgs, o \in scn.options}

ReadArgs ==
    {[NoArgs(v) EXCEPT !.use_cache = c] :
        v \in scn.vinArgs, c \in {JsUndefined, JsBool(FALSE)}}

PostArgs ==
    {[NoArgs(v) EXCEPT !.drives = "7,8", !.tag = "business",
                       !.charge_id = "c1", !.cost = JsNum(12)] :
        v \in scn.vinArgs}

PlainArgs == {NoArgs(v) : v \in scn.vinArgs}

DrivesArgs ==
    {[vin |-> v, from |-> n, to |-> JsUndefined,
      distance_format |-> df, temperature_format |-> tf,
      timezone |-> JsUndefined, tag |-> tg, exclude_tag |-> JsUndefined,
      minimum_distance |-> JsUndefined, limit |-> m] :
        v \in scn.vinArgs, n \in scn.argNumbers \ {JsNum(5)},
        df \in scn.argFormats[1], tf \in scn.argFormats[2],
        tg \in scn.argTags, m \in scn.argNumbers}

TirePressureArgs ==
    {[vin |-> v, pressure_format |-> pf, from |-> n, to |-> JsUndefined] :
        v \in scn.vinArgs, pf \in scn.argFormats[3],
        n \in scn.argNumbers \ {JsNum(5)}}

TemperatureArgs ==
    {[NoArgs(v) EXCEPT !.temperature = t] :
        v \in scn.vinArgs, t \in scn.temperatures}

---------------------------------------------------------------------------
(* The remote service *)

NetworkError == [neterr |-> <<"request failed, reason: socket hang up">>]

\* what the remote service may answer to a request
Responses(req) ==
    scn.httpErrors
    \cup (IF scn.oddAnswers
          THEN {NetworkError, [status |-> 200, text |-> "OK"]} ELSE {})
    \cup (IF req.method = "GET" /\ req.path[Len(req.path)] = "status"
          THEN {[status |-> 200, data |-> [status |-> veh[req.path[1]]]]}
               \cup (IF scn.oddAnswers
                     THEN {[status |-> 200, data |-> [vin |-> req.path[1]]]}
                     ELSE {})
          ELSE {[status |-> 200, data |-> [of |-> req.path]]})

\* the answer says the vehicle is awake
SaysAwake(resp) ==
    /\ "data" \in DOMAIN resp
    /\ "status" \in DOMAIN resp.data
    /\ resp.data.status = "awake"

---------------------------------------------------------------------------
(* Actions *)

InitIn(scenarios) ==
    /\ scn \in scenarios
    /\ env \in [TESSIE_API_TOKEN : scn.tokens,
                TESSIE_DEFAULT_VIN : scn.defaultVins,
                TESSIE_DISTANCE_FORMAT : scn.envFormats[1],
                TESSIE_TEMP_FORMAT : scn.envFormats[2],
                TESSIE_PRESSURE_FORMAT : scn.envFormats[3]]
    /\ veh = [v \in Vins |-> "asleep"]
    /\ now = 0
    /\ inv = [i \in Procs |->
                IF i \in scn.procs THEN Fresh("idle") ELSE Fresh("off")]

Init == InitIn(Scenarios)
InitLive == InitIn({Live, Slow})

Invoke(i, tools, args) ==
    /\ inv[i].pc = "idle"
    /\ now <= MaxStartGapTicks * TickMs
    /\ \E tool \in tools \cap scn.tools, a \in args :
         inv' = [inv EXCEPT ![i] = ToolCall(tool, a, inv[i], World)]
    /\ UNCHANGED <<env, veh, now, scn>>

InvokeCommandTool(i) == Invoke(i, CommandTools \cap scn.commandTools, CommandArgs)
InvokeWakeVehicle(i) ==
    /\ scn.name \in {"wide", "live"}
    /\ Invoke(i, {"wake_vehicle"}, PlainArgs)
InvokeSetTemperatures(i) == Invoke(i, {"set_temperatures"}, TemperatureArgs)
InvokeReadTool(i) == Invoke(i, ReadTools, ReadArgs)
InvokeGetDrives(i) == Invoke(i, {"get_drives"}, DrivesArgs)
InvokeGetTirePressure(i) == Invoke(i, {"get_tire_pressure"}, TirePressureArgs)

InvokeListResources(i) ==
    /\ inv[i].pc = "idle"
    /\ inv' = [inv EXCEPT ![i] = ListResources(inv[i], World)]
    /\ UNCHANGED <<env, veh, now, scn>>

InvokeReadResource(i) ==
    /\ inv[i].pc = "idle"
    /\ \E segs \in scn.resourceUris :
         inv' = [inv EXCEPT ![i] = ReadResource(segs, inv[i], World)]
    /\ UNCHANGED <<env, veh, now, scn>>
InvokeFullStatus(i) == Invoke(i, {"get_full_status"}, PlainArgs)
InvokePostTool(i) == Invoke(i, PostTools, PostArgs)

\* the remote service answers an outstanding request
Serve(i, s) ==
    LET f == inv[i].inflight[s]
    IN  /\ f # NoReq
        /\ f.resp = NoResp
        /\ \E r \in Responses(f.req) :
             inv' = [inv EXCEPT
                 ![i].inflight[s].resp = r,
                 ![i].served[s] = IF inv[i].pc = "all_settled" THEN r ELSE @,
                 ![i].inflight[s].vehAt =
                     IF IsStatusCheck(f.req) /\ "data" \in DOMAIN r
                        /\ "status" \in DOMAIN r.data
                     THEN veh[f.req.path[1]] ELSE @]
        /\ UNCHANGED <<env, veh, now, scn>>

\* what a settled status check said
ReportsAwake(out) ==
    /\ out.ok
    /\ "status" \in DOMAIN out.value
    /\ out.value.status = "awake"

Outcome(req, out) ==
    IF ~out.ok THEN "error"
    ELSE IF ~IsStatusCheck(req) THEN "ok"
    ELSE IF ReportsAwake(out) THEN "awake" ELSE "not_awake"

\* a request helper that sends a failed request once more
ReturnData_retry(L, out, w) ==
    LET last == L.log[Len(L.log)]
        again == [method |-> last.method, path |-> last.path,
                  query |-> last.query,
                  auth |-> <<"Bearer ", w.env.TESSIE_API_TOKEN>>,
                  body |-> last.body]
        failures == {k \in 1..Len(L.log) : L.log[k].result = "error"}
    IN  IF out.ok THEN Return(L, out.value, w)
        ELSE IF Cardinality(failures) <= 1 THEN Fetch(L, again, L.pc, w)
        ELSE Throw(L, out.error, w)

\* const data = await ...; return content(data)
ReturnData(L, out, w) ==
    IF out.ok THEN Return(L, out.value, w) ELSE Throw(L, out.error, w)

\* the code that follows the await the handler is suspended at
Continuation(label, L, out, w) ==
    CASE label = "first_check" -> ensureAwake_afterCheck(L, out, w)
      [] label = "wake" -> ensureAwake_afterWake(L, out, w)
      [] label = "poll_check" -> ensureAwake_afterPoll(L, out, w)
      [] label = "resource" -> ReadResource_contents(L, out, w)
      [] OTHER -> ReturnData(L, out, w)

\* a runtime in which one invocation's failure rejects every invocation that
\* is waiting
Resume_failAll(i, label) ==
    LET L == inv[i]
        f == L.inflight[1]
    IN  /\ L.pc = label
        /\ f # NoReq
        /\ f.resp # NoResp
        /\ LET out == Settle(f.resp)
               L1 == [L EXCEPT
                        !.inflight[1] = NoReq,
                        !.log[f.idx].result = Outcome(f.req, out),
                        !.vehAtAnswer = f.vehAt,
                        !.changed = f.changed]
               L2 == Continuation(label, L1, out, World)
           IN  inv' = [j \in Procs |->
                         IF j = i
                         THEN [L2 EXCEPT !.vehAtAnswer = "-", !.changed = FALSE]
                         ELSE IF L2.pc = "failed" /\ inv[j].pc = "sleep"
                         THEN Throw(inv[j], L2.result.error, World)
                         ELSE inv[j]]
        /\ UNCHANGED <<env, veh, now, scn>>

\* the response of the single outstanding request arrives and the handler
\* resumes after its await
Resume(i, label) ==
    LET L == inv[i]
        f == L.inflight[1]
    IN  /\ L.pc = label
        /\ f # NoReq
        /\ f.resp # NoResp
        /\ LET out == Settle(f.resp)
               L1 == [L EXCEPT
                        !.inflight[1] = NoReq,
                        !.log[f.idx].result = Outcome(f.req, out),
                        !.vehAtAnswer = f.vehAt,
                        !.changed = f.changed]
               L2 == Continuation(label, L1, out, World)
           IN  inv' = [inv EXCEPT ![i] =
                         [L2 EXCEPT !.vehAtAnswer = "-", !.changed = FALSE]]
        /\ UNCHANGED <<env, veh, now, scn>>

RecvFirstCheck(i) == Resume(i, "first_check")
RecvWake(i) == Resume(i, "wake")
RecvPollCheck(i) == Resume(i, "poll_check")
RecvCommand(i) == Resume(i, "command")
RecvData(i) == Resume(i, "data")
RecvResource(i) == Resume(i, "resource")

\* setTimeout(resolve, WAKE_POLL_INTERVAL_MS) fires
TimerFires(i) ==
    /\ inv[i].pc = "sleep"
    /\ now >= inv[i].wakeAt
    /\ inv' = [inv EXCEPT ![i] = ensureAwake_afterSleep(inv[i], World)]
    /\ UNCHANGED <<env, veh, now, scn>>

\* one branch of Promise.allSettled settles; the handler resumes when all have
SettleBranch(i, s) ==
    LET L == inv[i]
        f == L.inflight[s]
    IN  /\ L.pc = "all_settled"
        /\ f # NoReq
        /\ f.resp # NoResp
        /\ LET out == Settle(f.resp)
               L1 == [L EXCEPT
                        !.inflight[s] = NoReq,
                        !.log[f.idx].result = Outcome(f.req, out),
                        !.branch[s] =
                            IF out.ok
                            THEN [status |-> "fulfilled", value |-> out.value]
                            ELSE [status |-> "rejected", reason |-> out.error]]
           IN  inv' = [inv EXCEPT ![i] =
                         IF AllSettled(L1)
                         THEN get_full_status_result(L1, World) ELSE L1]
        /\ UNCHANGED <<env, veh, now, scn>>

Waiting(i) ==
    inv[i].pc \in {"first_check", "wake", "sleep", "poll_check", "command",
                   "data", "resource", "all_settled"}

\* a vehicle that an invocation in progress targets falls asleep or wakes up
\* on its own
VehicleChange(v) ==
    /\ \E i \in Procs : Waiting(i) /\ inv[i].call.vin = v
    /\ now <= scn.changeUntilMs
    /\ \E st \in scn.wakeStates \ {veh[v]} : veh' = [veh EXCEPT ![v] = st]
    /\ inv' = [i \in Procs |->
                 [inv[i] EXCEPT !.inflight = [s \in Slots |->
                     IF /\ @[s] # NoReq
                        /\ @[s].req.path[1] = v
                        /\ IsStatusCheck(@[s].req)
                        /\ SaysAwake(@[s].resp)
                     THEN [@[s] EXCEPT !.changed = TRUE] ELSE @[s]]]]
    /\ UNCHANGED <<env, now, scn>>

\* the clock advances while somebody waits; requests and timers are not
\* delayed beyond the scenario's bounds
Tick ==
    /\ \E i \in Procs : Waiting(i)
    /\ now + TickMs <= MaxClockMs
    /\ \A i \in Procs : \A s \in Slots :
         inv[i].inflight[s] # NoReq =>
            now + TickMs - inv[i].inflight[s].sentAt
                <= TickMs * (IF inv[i].pc \in {"first_check", "wake"}
                             THEN scn.maxStartLatencyTicks
                             ELSE scn.maxLatencyTicks)
    /\ \A i \in Procs :
         inv[i].pc = "sleep" =>
            now + TickMs - inv[i].wakeAt <= scn.maxTimerLateTicks * TickMs
                \/ now < inv[i].wakeAt
    /\ now' = now + TickMs
    /\ UNCHANGED <<env, veh, scn, inv>>

Next ==
    \/ \E i \in Procs : InvokeCommandTool(i)
    \/ \E i \in Procs : InvokeWakeVehicle(i)
    \/ \E i \in Procs : InvokeSetTemperatures(i)
    \/ \E i \in Procs : InvokeReadTool(i)
    \/ \E i \in Procs : InvokeFullStatus(i)
    \/ \E i \in Procs : InvokePostTool(i)
    \/ \E i \in Procs : \E s \in Slots : Serve(i, s)
    \/ \E i \in Procs : RecvFirstCheck(i)
    \/ \E i \in Procs : RecvWake(i)
    \/ \E i \in Procs : TimerFires(i)
    \/ \E i \in Procs : RecvPollCheck(i)
    \/ \E i \in Procs : RecvCommand(i)
    \/ \E i \in Procs : RecvData(i)
    \/ \E i \in Procs : RecvResource(i)
    \/ \E i \in Procs : InvokeListResources(i)
    \/ \E i \in Procs : InvokeGetDrives(i)
    \/ \E i \in Procs : InvokeGetTirePressure(i)
    \/ \E i \in Procs : InvokeReadResource(i)
    \/ \E i \in Procs : \E s \in Slots : SettleBranch(i, s)
    \/ \E v \in Vins : VehicleChange(v)
    \/ Tick

Spec == Init /\ [][Next]_vars

\* Every request is answered and its answer delivered, every timer that is
\* due fires, and the clock advances while somebody waits.
Fairness ==
    /\ WF_vars(Tick)
    /\ \A i \in Procs :
         /\ WF_vars(\E s \in Slots : Serve(i, s))
         /\ WF_vars(\E s \in Slots : SettleBranch(i, s))
         /\ WF_vars(RecvFirstCheck(i))
         /\ WF_vars(RecvWake(i))
         /\ WF_vars(RecvPollCheck(i))
         /\ WF_vars(RecvCommand(i))
         /\ WF_vars(RecvData(i))
         /\ WF_vars(RecvResource(i))
         /\ WF_vars(TimerFires(i))

PairSpec == InitIn({Pair, Live}) /\ [][Next]_vars
WideSpec == InitIn({Wide}) /\ [][Next]_vars
LiveSpec == InitLive /\ [][Next]_vars /\ Fairness

---------------------------------------------------------------------------
(* Properties *)

Log(i) == inv[i].log
Indices(i) == 1..Len(inv[i].log)
Orchestrates(i) == inv[i].orch # "none"
ChecksBefore(i, k) == {j \in 1..(k - 1) : IsStatusCheck(Log(i)[j])}
SetMax(S) == CHOOSE x \in S : \A y \in S : y <= x

\* C1: in an invocation of a command tool, the command POST is sent only
\* after a status check of that invocation reported awake, and the last
\* status check made before the POST is one that reported awake.
C1_PostOnlyAfterAwake ==
    \A i \in Procs : inv[i].call.tool \in CommandTools =>
        \A k \in Indices(i) : IsCommand(Log(i)[k]) =>
            /\ ChecksBefore(i, k) # {}
            /\ Log(i)[SetMax(ChecksBefore(i, k))].result = "awake"

\* a command was sent after the vehicle had to be woken and polled
C1_Witness ==
    \E i \in Procs :
        /\ inv[i].call.tool \in CommandTools
        /\ inv[i].sleeps >= 2
        /\ \E k \in Indices(i) : IsCommand(Log(i)[k])

\* C2: when the first status check of an orchestration run reports awake,
\* the run is Ready at once: no wake command, no wait, no poll, and exactly
\* one status check in the run.
C2_FastPath ==
    \A i \in Procs :
        (/\ Orchestrates(i)
         /\ Len(Log(i)) >= 1
         /\ Log(i)[1].result = "awake")
        => /\ inv[i].orch = "Ready"
           /\ inv[i].sleeps = 0
           /\ inv[i].pollStart = -1
           /\ \A k \in Indices(i) : ~IsWake(Log(i)[k])
           /\ Cardinality({k \in Indices(i) : IsStatusCheck(Log(i)[k])}) = 1

\* wake_vehicle finished on a vehicle found awake by the first check
C2_Witness ==
    \E i \in Procs :
        /\ inv[i].call.tool = "wake_vehicle"
        /\ inv[i].pc = "done"
        /\ Log(i)[1].result = "awake"

TimedOut(i) == inv[i].orch = "TimedOut"
CommandSent(i) == inv[i].cmdVeh # "-"

\* C3 as stated: at the moment a command request is sent, the vehicle is
\* actually awake, whatever the vehicle does on its own.
C3_AwakeWhenSent ==
    \A i \in Procs : CommandSent(i) => inv[i].cmdVeh = "awake"

\* C3 amended: at the moment a command request is sent, the vehicle was
\* actually awake when the last status check of the invocation was answered;
\* it is still awake unless it changed on its own after that answer.
C3_AwakeWhenLastAnswered ==
    \A i \in Procs : CommandSent(i) =>
        /\ inv[i].cmdVehAtAnswer = "awake"
        /\ inv[i].cmdVeh = "awake" \/ inv[i].cmdChanged

\* a command was sent to a vehicle that fell asleep after its awake answer
C3_Witness ==
    \E i \in Procs :
        /\ CommandSent(i)
        /\ inv[i].cmdVeh = "asleep"
        /\ inv[i].cmdChanged

\* C4: a run whose status checks never report awake fails with the
\* wake-timeout error no earlier than 90 seconds after polling began, that
\* is after the wake command returned.
C4_NotBeforeTimeout ==
    \A i \in Procs : TimedOut(i) =>
        /\ inv[i].result = [isError |-> TRUE,
                            error |-> WakeTimeoutMessage(inv[i].call.vin)]
        /\ inv[i].endedAt - inv[i].pollStart >= WAKE_TIMEOUT_MS

\* a run timed out exactly 90 seconds after polling began
C4_Witness ==
    \E i \in Procs :
        /\ TimedOut(i)
        /\ inv[i].endedAt - inv[i].pollStart = WAKE_TIMEOUT_MS

\* C5 as stated: a run whose status checks never report awake fails no
\* later than 90 seconds plus one poll interval after polling began,
\* whatever time the status checks take.
C5_NotAfterTimeoutPlusInterval ==
    \A i \in Procs : TimedOut(i) =>
        inv[i].endedAt - inv[i].pollStart
            <= WAKE_TIMEOUT_MS + WAKE_POLL_INTERVAL_MS

\* C5 amended: the run fails when the status check of its last poll
\* iteration returns, and that iteration began less than 90 seconds after
\* polling began: the failure comes less than 90 seconds plus the length of
\* the last iteration (its wait and its status check) after polling began.
C5_NotAfterTimeoutPlusLastIteration ==
    \A i \in Procs : TimedOut(i) =>
        /\ Log(i)[Len(Log(i))].result = "not_awake"
        /\ inv[i].endedAt - inv[i].pollStart
              < WAKE_TIMEOUT_MS + (inv[i].endedAt - inv[i].lastSleepAt)

\* a run timed out more than 93 seconds after polling began
C5_Witness ==
    \E i \in Procs :
        /\ TimedOut(i)
        /\ inv[i].endedAt - inv[i].pollStart
              > WAKE_TIMEOUT_MS + WAKE_POLL_INTERVAL_MS

\* C6 as stated: every POST a tool handler sends goes through the command
\* dispatcher, that is after the wake orchestration has completed.
C6_EveryPostThroughDispatcher ==
    \A i \in Procs : \A k \in Indices(i) :
        (Log(i)[k].method = "POST" /\ ~IsWake(Log(i)[k]))
        => inv[i].orch = "Ready"

\* C6 amended: every POST to a vehicle command path goes through the
\* command dispatcher, after the wake orchestration has completed as Ready;
\* the only other POSTs are the wake command of the orchestration itself
\* and the direct POSTs of set_drive_tag and set_charge_cost, which run no
\* wake orchestration.
C6_CommandPostsThroughDispatcher ==
    \A i \in Procs : \A k \in Indices(i) :
        Log(i)[k].method = "POST" =>
            \/ /\ IsCommand(Log(i)[k])
               /\ inv[i].call.tool \in CommandTools
               /\ inv[i].orch = "Ready"
            \/ /\ IsWake(Log(i)[k])
               /\ inv[i].call.tool \in CommandTools \cup {"wake_vehicle"}
               /\ Orchestrates(i)
            \/ /\ ~IsCommand(Log(i)[k]) /\ ~IsWake(Log(i)[k])
               /\ inv[i].call.tool \in PostTools
               /\ ~Orchestrates(i)

\* start_climate has sent its command POST
C6_Witness ==
    \E i \in Procs :
        /\ inv[i].call.tool = "start_climate"
        /\ \E k \in Indices(i) : IsCommand(Log(i)[k])
        /\ inv[i].pc = "done"

\* C7: when the wake orchestration of an invocation fails (timeout or a
\* failed request), no command request is sent and the invocation fails
\* with the error the orchestration raised.
C7_OrchestrationFailurePropagates ==
    \A i \in Procs : inv[i].orch \in {"Failed", "TimedOut"} =>
        /\ \A k \in Indices(i) : ~IsCommand(Log(i)[k])
        /\ inv[i].pc = "failed"
        /\ inv[i].result = [isError |-> TRUE, error |-> inv[i].orchError]

\* a command tool failed because a poll's status check failed
C7_Witness ==
    \E i \in Procs :
        /\ inv[i].call.tool \in CommandTools
        /\ inv[i].orch = "Failed"
        /\ inv[i].sleeps >= 1
        /\ inv[i].pc = "failed"

\* C8: a read-only data tool sends only GET requests: no wake command, no
\* other POST, and no wake orchestration, whatever the vehicle's state.
C8_ReadToolsOnlyGet ==
    \A i \in Procs :
        inv[i].call.tool
            \in ReadTools \cup FormatTools \cup {"get_full_status"} =>
            /\ ~Orchestrates(i)
            /\ inv[i].sleeps = 0
            /\ \A k \in Indices(i) : Log(i)[k].method = "GET"

\* get_battery returned for a vehicle that is asleep
C8_Witness ==
    \E i \in Procs :
        /\ inv[i].call.tool = "get_battery"
        /\ inv[i].pc = "done"
        /\ veh[inv[i].call.vin] = "asleep"

Started(i) == inv[i].pc \notin {"off", "idle"}

\* the tools whose schema holds vin: VinSchema

\* C9: with no VIN argument and no configured default the invocation fails
\* with the VIN-required error before any request; with a default and no
\* argument every request path carries the default; with an argument every
\* request path carries the argument.  (An empty string counts as absent.)
C9_VinResolution ==
    \A i \in Procs : (Started(i) /\ inv[i].call.tool \in VehicleTools) =>
        LET a == inv[i].call.arg_vin
            d == env.TESSIE_DEFAULT_VIN
        IN  /\ (~Truthy(a) /\ ~Truthy(d)) =>
                  /\ inv[i].result = [isError |-> TRUE,
                                      error |-> VinRequiredMessage]
                  /\ Log(i) = <<>>
            /\ (~Truthy(a) /\ Truthy(d)) =>
                  /\ inv[i].result # [isError |-> TRUE,
                                      error |-> VinRequiredMessage]
                  /\ \A k \in Indices(i) : Log(i)[k].path[1] = d
            /\ Truthy(a) =>
                  /\ inv[i].result # [isError |-> TRUE,
                                      error |-> VinRequiredMessage]
                  /\ \A k \in Indices(i) : Log(i)[k].path[1] = a

\* a request went out for the VIN argument although a different default
\* is configured
C9_Witness ==
    \E i \in Procs :
        /\ Truthy(inv[i].call.arg_vin)
        /\ Truthy(env.TESSIE_DEFAULT_VIN)
        /\ inv[i].call.arg_vin # env.TESSIE_DEFAULT_VIN
        /\ Len(Log(i)) >= 1

\* what a slot of the combined result must hold, given the answer the
\* remote service gave to the slot's read (none: the request never went out)
ExpectedSlot(resp) ==
    IF resp = NoResp THEN [error |-> NoTokenMessage]
    ELSE IF "neterr" \in DOMAIN resp THEN [error |-> resp.neterr]
    ELSE IF resp.status # 200
    THEN [error |-> <<"Tessie API error ", ToString(resp.status), ": ",
                      resp.text>>]
    ELSE IF "data" \in DOMAIN resp THEN resp.data
    ELSE [raw |-> resp.text]

Finished(i) == inv[i].pc \in {"done", "failed"}

\* C10: get_full_status never fails because of a failed read: whichever of
\* its three reads fail, it returns successfully, with the payload in each
\* slot whose read succeeded and an error descriptor carrying the error
\* message in each slot whose read failed.
C10_FullStatusNeverRaises ==
    \A i \in Procs :
        (/\ inv[i].call.tool = "get_full_status"
         /\ Truthy(inv[i].call.vin)
         /\ Finished(i))
        => /\ inv[i].pc = "done"
           /\ inv[i].result =
                [isError |-> FALSE,
                 content |-> <<[type |-> "text",
                     json |-> [battery |-> ExpectedSlot(inv[i].served[1]),
                               location |-> ExpectedSlot(inv[i].served[2]),
                               state |-> ExpectedSlot(inv[i].served[3])]]>>]

\* get_full_status returned although exactly its location read failed
C10_Witness ==
    \E i \in Procs :
        /\ inv[i].call.tool = "get_full_status"
        /\ inv[i].pc = "done"
        /\ Len(Log(i)) = 3
        /\ Log(i)[1].result = "ok"
        /\ Log(i)[2].result = "error"
        /\ Log(i)[3].result = "ok"

NoRequest(i) ==
    /\ Log(i) = <<>>
    /\ \A s \in Slots : inv[i].inflight[s] = NoReq

InRange(t) == t.t = "num" /\ 15 <= t.v /\ t.v <= 28

\* C11: a set_temperatures call whose temperature is outside 15..28 fails
\* validation before any request: no status check, no wake command and no
\* command POST; 15 and 28 are accepted and reach the handler.
C11_TemperatureRange ==
    \A i \in Procs :
        (inv[i].call.tool = "set_temperatures" /\ Truthy(inv[i].call.vin)) =>
            LET t == inv[i].call.args.temperature
            IN  IF InRange(t)
                THEN Orchestrates(i)
                ELSE /\ NoRequest(i)
                     /\ ~Orchestrates(i)
                     /\ inv[i].pc = "failed"
                     /\ inv[i].result.isError
                     /\ inv[i].result.error[1] = "Invalid arguments for tool "

\* a call with 30 for a known vehicle, with a token configured, was rejected
C11_Witness ==
    \E i \in Procs :
        /\ inv[i].call.tool = "set_temperatures"
        /\ inv[i].call.args.temperature = JsNum(30)
        /\ Truthy(inv[i].call.vin)
        /\ Truthy(env.TESSIE_API_TOKEN)
        /\ inv[i].pc = "failed"

SingleRequestLabels ==
    {"first_check", "wake", "poll_check", "command", "data", "resource"}

\* the step in which invocation i receives a non-2xx answer
ReceivesHttpError(i) ==
    LET f == inv[i].inflight[1]
    IN  /\ inv[i].pc \in SingleRequestLabels
        /\ f # NoReq
        /\ f.resp # NoResp
        /\ "status" \in DOMAIN f.resp
        /\ ~(200 <= f.resp.status /\ f.resp.status <= 299)
        /\ inv[i].log[f.idx].result = "pending"
        /\ inv'[i].log[f.idx].result # "pending"

\* C12: the request helper never retries: when the remote service answers
\* non-2xx, the invocation fails with an error carrying that status code
\* and that exact body text, the failed request is not sent again, and a
\* failed invocation sends nothing more.
C12_NoRetry ==
    [][\A i \in Procs :
          /\ ReceivesHttpError(i) =>
                LET f == inv[i].inflight[1]
                IN  /\ inv'[i].pc = "failed"
                    /\ inv'[i].result =
                          [isError |-> TRUE,
                           error |-> <<"Tessie API error ",
                                       ToString(f.resp.status), ": ",
                                       f.resp.text>>]
                    /\ inv'[i].log =
                          [inv[i].log EXCEPT ![f.idx].result = "error"]
                    /\ \A s \in Slots : inv'[i].inflight[s] = NoReq
          /\ inv[i].pc = "failed" => inv'[i] = inv[i]
      ]_vars

\* a lock command was answered 503 "service unavailable" and lock failed
\* with that status and text, its POST sent once
C12_Witness ==
    \E i \in Procs :
        /\ inv[i].call.tool = "lock"
        /\ inv[i].pc = "failed"
        /\ Len(Log(i)) >= 1
        /\ IsCommand(Log(i)[Len(Log(i))])
        /\ Cardinality({k \in Indices(i) : IsCommand(Log(i)[k])}) = 1
        /\ inv[i].result.error =
              <<"Tessie API error ", "503", ": ", "service unavailable">>

\* the invocation got as far as asking the request helper for a request
AttemptsRequest(i) ==
    /\ Started(i)
    /\ \/ /\ inv[i].call.tool \in VehicleTools
          /\ Truthy(inv[i].call.vin)
          /\ inv[i].call.tool = "set_temperatures"
                => InRange(inv[i].call.args.temperature)
       \/ /\ inv[i].call.tool = "resources/read"
          /\ LET u == inv[i].call.args.uri
             IN  \/ u = <<"vehicles">>
                 \/ /\ Len(u) >= 2
                    /\ u[Len(u)] \in {"state", "status"}
                    /\ u[1] # ""

\* C13: with no API token configured, every request attempt fails with the
\* configuration error before any network I/O: no operation (read, command,
\* wake, resource read) sends a request, so a command sends no status
\* check, no wake and no command.
C13_NoTokenNoRequest ==
    ~Truthy(env.TESSIE_API_TOKEN) =>
        \A i \in Procs :
            /\ NoRequest(i)
            /\ AttemptsRequest(i) =>
                  IF inv[i].call.tool = "get_full_status"
                  THEN \A s \in Slots :
                          inv[i].branch[s] = [status |-> "rejected",
                                              reason |-> NoTokenMessage]
                  ELSE /\ inv[i].pc = "failed"
                       /\ inv[i].result = [isError |-> TRUE,
                                           error |-> NoTokenMessage]

\* a lock call for a known vehicle failed for want of a token
C13_Witness ==
    \E i \in Procs :
        /\ ~Truthy(env.TESSIE_API_TOKEN)
        /\ inv[i].call.tool = "lock"
        /\ Truthy(inv[i].call.vin)
        /\ inv[i].pc = "failed"

Listed(i) == {inv[i].result.resources[k].uri :
                 k \in 1..Len(inv[i].result.resources)}

\* C19: the resource listing always holds the fleet resource
\* tessie://vehicles; it holds the state and status resources of a vehicle
\* exactly when a default VIN is configured, both with that VIN.
C19_ResourceListing ==
    \A i \in Procs : inv[i].call.tool = "resources/list" =>
        /\ inv[i].pc = "done"
        /\ NoRequest(i)
        /\ Len(inv[i].result.resources) = Cardinality(Listed(i))
        /\ LET d == env.TESSIE_DEFAULT_VIN
           IN  IF d \notin {Undefined, ""}
               THEN Listed(i) = {<<"vehicles">>, <<d, "state">>,
                                 <<d, "status">>}
               ELSE Listed(i) = {<<"vehicles">>}

\* a listing made with the default VIN V1 holds three resources
C19_Witness ==
    \E i \in Procs :
        /\ inv[i].call.tool = "resources/list"
        /\ env.TESSIE_DEFAULT_VIN = "V1"
        /\ Len(inv[i].result.resources) = 3

\* the text a present parameter value must appear as
TextOf(val) ==
    CASE val = JsBool(TRUE) -> "true"
      [] val = JsBool(FALSE) -> "false"
      [] val = JsNum(0) -> "0"
      [] val = JsNum(3) -> "3"
      [] val = JsNum(5) -> "5"
      [] val = JsNum(15) -> "15"
      [] val = JsNum(28) -> "28"
      [] val = JsStr("work") -> "work"
      [] val = JsStr("mi") -> "mi"
      [] val = JsStr("km") -> "km"
      [] val = JsStr("f") -> "f"
      [] val = JsStr("c") -> "c"
      [] val = JsStr("bar") -> "bar"
      [] val = JsStr("kpa") -> "kpa"

\* the query holds the key once with the value's text, or not at all when
\* the value is absent
Carries(query, key, val) ==
    LET at == {k \in 1..Len(query) : query[k][1] = key}
    IN  IF val = JsUndefined THEN at = {}
        ELSE /\ Cardinality(at) = 1
             /\ \A k \in at : query[k][2] = TextOf(val)

PlainKeys(tool) ==
    CASE tool \in CommandTools -> {"wait_for_completion", "max_attempts"}
      [] tool = "get_vehicle_state" -> {"use_cache"}
      [] tool = "get_drives" -> {"from", "to", "timezone", "tag",
                                 "exclude_tag", "minimum_distance", "limit"}
      [] tool = "get_tire_pressure" -> {"from", "to"}
      [] OTHER -> {}

Arg(a, key) ==
    CASE key = "wait_for_completion" -> a.wait_for_completion
      [] key = "max_attempts" -> a.max_attempts
      [] key = "use_cache" -> a.use_cache
      [] key = "from" -> a.from
      [] key = "to" -> a.to
      [] key = "timezone" -> a.timezone
      [] key = "tag" -> a.tag
      [] key = "exclude_tag" -> a.exclude_tag
      [] key = "minimum_distance" -> a.minimum_distance
      [] key = "limit" -> a.limit

\* the requests of an invocation that carry the tool's own parameters
OwnRequests(i) ==
    {k \in Indices(i) : ~IsStatusCheck(Log(i)[k]) /\ ~IsWake(Log(i)[k])}

\* C14: the request helper leaves out of the query string every parameter
\* whose value is absent: the key does not appear at all; every present
\* parameter, false and 0 included, appears exactly once with its
\* stringified value.
C14_QueryOmitsAbsent ==
    \A i \in Procs :
        /\ \A k \in Indices(i) : \A n \in 1..Len(Log(i)[k].query) :
              Log(i)[k].query[n][2] # "undefined"
        /\ inv[i].call.tool \in VehicleTools =>
              \A k \in OwnRequests(i) : \A key \in PlainKeys(inv[i].call.tool) :
                  Carries(Log(i)[k].query, key, Arg(inv[i].call.args, key))

\* get_drives sent limit=0 and no from, to or tag
C14_Witness ==
    \E i \in Procs :
        /\ inv[i].call.tool = "get_drives"
        /\ inv[i].call.args.limit = JsNum(0)
        /\ inv[i].call.args.from = JsUndefined
        /\ inv[i].call.args.tag = JsUndefined
        /\ Len(Log(i)) = 1
        /\ <<"limit", "0">> \in {Log(i)[1].query[n] :
                                    n \in 1..Len(Log(i)[1].query)}

AllowedFormats(key) ==
    CASE key = "distance_format" -> {"mi", "km"}
      [] key = "temperature_format" -> {"f", "c"}
      [] key = "pressure_format" -> {"psi", "bar", "kpa"}

EnvFormat(key) ==
    CASE key = "distance_format" -> env.TESSIE_DISTANCE_FORMAT
      [] key = "temperature_format" -> env.TESSIE_TEMP_FORMAT
      [] key = "pressure_format" -> env.TESSIE_PRESSURE_FORMAT

ArgFormat(a, key) ==
    CASE key = "distance_format" -> a.distance_format
      [] key = "temperature_format" -> a.temperature_format
      [] key = "pressure_format" -> a.pressure_format

FormatKeys(tool) ==
    CASE tool = "get_drives" -> {"distance_format", "temperature_format"}
      [] tool = "get_tire_pressure" -> {"pressure_format"}
      [] OTHER -> {}

\* C18: on the read tools that take a unit format, an explicit format
\* parameter overrides the environment default; when the call omits it, the
\* environment default is sent if it is an allowed value; when the
\* environment value is unset or not allowed, the parameter is left out.
C18_FormatFallback ==
    \A i \in Procs : \A k \in Indices(i) :
        \A key \in FormatKeys(inv[i].call.tool) :
            LET explicit == ArgFormat(inv[i].call.args, key)
                sent == IF explicit # JsUndefined THEN explicit
                        ELSE IF EnvFormat(key) \in AllowedFormats(key)
                        THEN JsStr(EnvFormat(key))
                        ELSE JsUndefined
            IN  Carries(Log(i)[k].query, key, sent)

\* get_drives sent the explicit mi although the environment says km, and
\* left the temperature format out because the environment's is not allowed
C18_Witness ==
    \E i \in Procs :
        /\ inv[i].call.tool = "get_drives"
        /\ Len(Log(i)) = 1
        /\ inv[i].call.args.distance_format = JsStr("mi")
        /\ env.TESSIE_DISTANCE_FORMAT = "km"
        /\ inv[i].call.args.temperature_format = JsUndefined
        /\ env.TESSIE_TEMP_FORMAT = "C"

Running(i) == inv[i].orch \in {"Check", "Waking", "Polling"}
Ended(i) == inv[i].orch \in {"Ready", "Failed", "TimedOut"}

\* C15: every wake-orchestration run eventually reaches a terminal outcome
\* (Ready, TimedOut or a propagated request error) and never polls for
\* ever, provided every request is answered and the clock advances.
C15_OrchestrationEnds ==
    \A i \in Procs : Running(i) ~> Ended(i)

\* a run ended Ready on the answer to its last possible poll
C15_Witness ==
    \E i \in Procs :
        /\ inv[i].orch = "Ready"
        /\ inv[i].sleeps * WAKE_POLL_INTERVAL_MS >= WAKE_TIMEOUT_MS

WakeIndices(i) == {k \in Indices(i) : IsWake(Log(i)[k])}
PollingBegan(i) == inv[i].pollStart # -1 /\ inv[i].sleeps >= 1

\* at most one wake command, sent second, after a first status check that
\* did not report awake
OneWakeAfterCheck(i) ==
    /\ Cardinality(WakeIndices(i)) <= 1
    /\ \A k \in WakeIndices(i) :
         /\ k = 2
         /\ IsStatusCheck(Log(i)[1])
         /\ Log(i)[1].result = "not_awake"

\* C16 as stated: a run issues exactly one wake command, only after a first
\* status check that did not report awake, and polling begins whatever the
\* wake call comes back with, a failure included.
C16_AlwaysPolls ==
    \A i \in Procs :
        /\ OneWakeAfterCheck(i)
        /\ \A k \in WakeIndices(i) :
             Log(i)[k].result # "pending" => PollingBegan(i)

\* C16 amended: a run issues exactly one wake command, only after a first
\* status check that did not report awake; when the wake call succeeds,
\* polling begins whatever the answer holds; when it fails, the run ends
\* Failed with that error and never polls.
C16_PollsAfterWakeSucceeds ==
    \A i \in Procs :
        /\ OneWakeAfterCheck(i)
        /\ inv[i].orch \in {"Polling", "TimedOut"} =>
               Cardinality(WakeIndices(i)) = 1
        /\ \A k \in WakeIndices(i) :
             /\ Log(i)[k].result = "ok" => PollingBegan(i)
             /\ Log(i)[k].result = "error" =>
                    /\ inv[i].orch = "Failed"
                    /\ inv[i].pollStart = -1
                    /\ inv[i].sleeps = 0
                    /\ Len(Log(i)) = k
                    /\ inv[i].result = [isError |-> TRUE,
                                        error |-> inv[i].orchError]

\* a run sent its first poll after the wake call had succeeded
C16_Witness ==
    \E i \in Procs :
        /\ Len(Log(i)) >= 3
        /\ IsWake(Log(i)[2])
        /\ Log(i)[2].result = "ok"
        /\ IsStatusCheck(Log(i)[3])
        /\ inv[i].sleeps >= 1

\* what the handler of an invocation holds: where it is suspended, what it
\* has sent and learnt, and what it returned
Program(L) ==
    <<L.pc, L.log, L.result, L.orch, L.deadline, L.wakeAt, L.sleeps>>

\* every request of the invocation is for its own vehicle, and a run that
\* found the vehicle not awake sent its own wake command
OwnRequests17(i) ==
    /\ inv[i].call.tool \in VehicleTools =>
          \A k \in Indices(i) : Log(i)[k].path[1] = inv[i].call.vin
    /\ (/\ Orchestrates(i)
        /\ Len(Log(i)) >= 1
        /\ Log(i)[1].result = "not_awake")
       => /\ Len(Log(i)) >= 2
          /\ IsWake(Log(i)[2])

\* the outcome of the invocation follows from the answers to its own
\* requests and from its own deadline
OwnOutcome(i) ==
    /\ (inv[i].pc = "failed" /\ Len(Log(i)) >= 1) =>
          \/ Log(i)[Len(Log(i))].result = "error"
          \/ /\ TimedOut(i)
             /\ inv[i].endedAt >= inv[i].deadline
             /\ Log(i)[Len(Log(i))].result = "not_awake"
             /\ inv[i].result.error = WakeTimeoutMessage(inv[i].call.vin)
    /\ (inv[i].pc = "done" /\ inv[i].call.tool # "get_full_status") =>
          \A k \in Indices(i) : Log(i)[k].result \notin {"error", "pending"}

\* the invocation goes on as soon as what it awaits is there
NotBlocked(i) ==
    /\ (inv[i].pc = "sleep" /\ now >= inv[i].wakeAt) => ENABLED TimerFires(i)
    /\ (/\ inv[i].pc \in {"first_check", "wake", "poll_check", "command"}
        /\ inv[i].inflight[1] # NoReq)
       => IF inv[i].inflight[1].resp = NoResp
          THEN ENABLED Serve(i, 1)
          ELSE ENABLED (\/ RecvFirstCheck(i) \/ RecvWake(i)
                        \/ RecvPollCheck(i) \/ RecvCommand(i))

\* a step of one invocation leaves the other invocations as they are
OneAtATime ==
    \A i, j \in Procs :
        (i # j /\ Program(inv'[i]) # Program(inv[i]))
        => Program(inv'[j]) = Program(inv[j])

\* C17: invocations in progress at once, on the same vehicle or on different
\* ones, share nothing and do not coordinate: each sends its own status
\* checks, wake command and polls, none waits for another, and the failure
\* or the timeout of one changes neither what another sends nor how it ends.
C17_Independent ==
    /\ [](\A i \in Procs : OwnRequests17(i) /\ OwnOutcome(i) /\ NotBlocked(i))
    /\ [][OneAtATime]_vars

\* on one vehicle, an invocation timed out and another, which had sent its
\* own wake command, has locked the vehicle
C17_Witness ==
    \E i, j \in Procs :
        /\ i # j
        /\ inv[i].call.vin = inv[j].call.vin
        /\ TimedOut(i)
        /\ inv[j].pc = "done"
        /\ Len(Log(j)) >= 4
        /\ IsWake(Log(j)[2])
        /\ IsWake(Log(i)[2])

StatusIndices(i) == {k \in Indices(i) : IsStatusCheck(Log(i)[k])}

\* C20: a run ends TimedOut only if none of its status checks, the first
\* one and every poll, reported awake; a status check that reports awake
\* ends the run as Ready at once, whatever the clock says: it is the run's
\* last status check and no wait follows it.
C20_AwakeWinsOverDeadline ==
    \A i \in Procs : Orchestrates(i) =>
        /\ TimedOut(i) =>
              \A k \in StatusIndices(i) : Log(i)[k].result = "not_awake"
        /\ \A k \in StatusIndices(i) : Log(i)[k].result = "awake" =>
              /\ inv[i].orch = "Ready"
              /\ k = SetMax(StatusIndices(i))
              /\ inv[i].pc # "sleep"
              /\ Cardinality(StatusIndices(i)) = inv[i].sleeps + 1

\* a poll's status check reported awake after the deadline had passed, and
\* the command went out
C20_Witness ==
    \E i \in Procs :
        /\ inv[i].orch = "Ready"
        /\ inv[i].sleeps >= 1
        /\ inv[i].inflight[1] # NoReq
        /\ IsCommand(inv[i].inflight[1].req)
        /\ inv[i].inflight[1].sentAt > inv[i].deadline

\* the step hands a new status check to fetch
SendsStatusCheck(i) ==
    /\ Len(inv'[i].log) = Len(inv[i].log) + 1
    /\ IsStatusCheck(inv'[i].log[Len(inv'[i].log)])

\* the step arms the poll timer
BeginsWait(i) == inv'[i].pc = "sleep" /\ inv[i].pc # "sleep"

PollSpacing(i) ==
    /\ (SendsStatusCheck(i) /\ Orchestrates(i)) =>
          /\ inv[i].pc = "sleep"
          /\ inv[i].pollStart # -1
          /\ inv[i].lastSleepAt >= inv[i].pollStart
          /\ now >= inv[i].lastSleepAt + WAKE_POLL_INTERVAL_MS
          /\ inv'[i].inflight[1].sentAt = now
    /\ BeginsWait(i) =>
          /\ inv[i].pc \in {"wake", "poll_check"}
          /\ inv'[i].lastSleepAt = now
          /\ inv[i].inflight[1].sentAt <= now
          /\ inv[i].pc = "wake" => inv'[i].pollStart = now

\* C21: once the wake command has returned, a status check goes out only
\* at the end of a wait of one poll interval (3 seconds) that began when the
\* wake command or the previous poll check returned: the first poll check
\* is at least one interval after the wake command returned, consecutive
\* poll checks are at least one interval apart, and no check follows the
\* wake command at once.
C21_PollSpacing == [][\A i \in Procs : PollSpacing(i)]_vars

\* a second poll check went out more than one interval after the wait for
\* it began
C21_Witness ==
    \E i \in Procs :
        /\ inv[i].pc = "poll_check"
        /\ inv[i].sleeps >= 2
        /\ inv[i].inflight[1] # NoReq
        /\ inv[i].inflight[1].sentAt
              > inv[i].lastSleepAt + WAKE_POLL_INTERVAL_MS

MaxPolls == WAKE_TIMEOUT_MS \div WAKE_POLL_INTERVAL_MS

\* C22: an orchestration run sends at most one wake command and at most 31
\* status checks: the first one and at most 30 polls, one per wait.
C22_RequestsBounded ==
    \A i \in Procs : Orchestrates(i) =>
        /\ Cardinality(WakeIndices(i)) <= 1
        /\ inv[i].sleeps <= MaxPolls
        /\ Cardinality(StatusIndices(i)) <= 1 + inv[i].sleeps
        /\ Cardinality(StatusIndices(i)) <= 1 + MaxPolls

\* a run has sent its 31st status check
C22_Witness ==
    \E i \in Procs :
        /\ Orchestrates(i)
        /\ Cardinality(StatusIndices(i)) = 1 + MaxPolls
        /\ Cardinality(WakeIndices(i)) = 1

\* the errors a request can fail with
RequestErrors ==
    {ApiErrorMessage(e.status, e.text) : e \in scn.httpErrors}
        \cup {NetworkError.neterr}

\* C23: when a status check of a run, the first one or a poll, fails with
\* a request error, the run ends at once with that error: the failed check
\* is the last request of the invocation (no further status check, no wake
\* command after a failed first check, no command), and the invocation
\* fails with the request error, not with the wake-timeout error.
C23_FailedCheckEndsRun ==
    \A i \in Procs : Orchestrates(i) =>
        \A k \in Indices(i) :
            (IsStatusCheck(Log(i)[k]) /\ Log(i)[k].result = "error") =>
                /\ k = Len(Log(i))
                /\ inv[i].orch = "Failed"
                /\ inv[i].pc = "failed"
                /\ inv[i].result = [isError |-> TRUE,
                                    error |-> inv[i].orchError]
                /\ inv[i].orchError \in RequestErrors
                /\ inv[i].orchError # WakeTimeoutMessage(inv[i].call.vin)
                /\ k = 1 => \A j \in Indices(i) : ~IsWake(Log(i)[j])

\* a command failed on the second poll's status check
C23_Witness ==
    \E i \in Procs :
        /\ inv[i].call.tool \in CommandTools
        /\ inv[i].sleeps = 2
        /\ Len(Log(i)) = 4
        /\ Log(i)[4].result = "error"
        /\ inv[i].pc = "failed"

\* the step delivers the successful answer r to a status check of the run
ChecksAnswered(i, r) ==
    /\ inv[i].pc \in {"first_check", "poll_check"}
    /\ inv[i].inflight[1] # NoReq
    /\ r = inv[i].inflight[1].resp
    /\ r # NoResp
    /\ Settle(r).ok
    /\ inv'[i].pc # inv[i].pc \/ inv'[i].log # inv[i].log
          \/ inv'[i].sleeps # inv[i].sleeps

\* the successful answers a status check may get
StatusAnswers(v) ==
    {[status |-> 200, data |-> [status |-> st]] : st \in WakeStates}
        \cup {[status |-> 200, data |-> [vin |-> v]],
              [status |-> 200, text |-> "OK"]}

AwakeOnlyIfExactly(i) ==
    \A r \in StatusAnswers(inv[i].call.vin) : ChecksAnswered(i, r) =>
        IF r = [status |-> 200, data |-> [status |-> "awake"]]
        THEN inv'[i].orch = "Ready"
        ELSE /\ inv'[i].orch # "Ready"
             /\ inv'[i].log[inv[i].inflight[1].idx].result = "not_awake"
             /\ IF inv[i].pc = "first_check"
                THEN /\ inv'[i].pc = "wake"
                     /\ IsWake(inv'[i].log[Len(inv'[i].log)])
                ELSE \/ /\ inv'[i].pc = "sleep"
                        /\ inv'[i].sleeps = inv[i].sleeps + 1
                     \/ /\ inv'[i].orch = "TimedOut"
                        /\ now >= inv[i].deadline

\* C24: a status check counts as awake only when the answer's status field
\* is exactly "awake"; every other successful answer (asleep,
\* waiting_for_sleep, no status field, a body that is not JSON) counts as
\* not awake: after the first check the wake command goes out, after a poll
\* another wait begins, unless the deadline has passed.
C24_AwakeOnlyIfExactly == [][\A i \in Procs : AwakeOnlyIfExactly(i)]_vars

\* a run is in its second wait and the vehicle says waiting_for_sleep
C24_Witness ==
    \E i \in Procs :
        /\ inv[i].pc = "sleep"
        /\ inv[i].sleeps = 2
        /\ Len(Log(i)) = 3
        /\ Log(i)[3].result = "not_awake"
        /\ veh[inv[i].call.vin] = "waiting_for_sleep"

SlotNames == <<"battery", "location", "state">>

\* get_full_status of invocation i has sent its reads
FannedOut(i) ==
    /\ inv[i].call.tool = "get_full_status"
    /\ Truthy(inv[i].call.vin)
    /\ Truthy(env.TESSIE_API_TOKEN)
    /\ inv[i].pc \in {"all_settled", "done", "failed"}

\* the requests of the fan-out: one GET per slot, in the order of the slots
ThreeReads(i) ==
    /\ Len(Log(i)) = 3
    /\ \A s \in Slots :
          /\ Log(i)[s].method = "GET"
          /\ Log(i)[s].path = <<inv[i].call.vin, SlotNames[s]>>
          /\ Log(i)[s].body = NoBody

\* slot s holds what the read of its own path was answered
Positional(i, s) ==
    LET b == inv[i].branch[s]
    IN  b # Pending =>
          /\ inv[i].served[s] # NoResp
          /\ SlotOf(b) = ExpectedSlot(inv[i].served[s])
          /\ b.status = "fulfilled" <=> Settle(inv[i].served[s]).ok
          /\ (b.status = "fulfilled" /\ "of" \in DOMAIN b.value)
                => b.value.of = <<inv[i].call.vin, SlotNames[s]>>

\* the step that starts get_full_status leaves all three reads outstanding
StartsTogether(i) ==
    (inv[i].pc = "idle" /\ FannedOut(i)') =>
        /\ inv'[i].pc = "all_settled"
        /\ \A s \in Slots :
              /\ inv'[i].inflight[s] # NoReq
              /\ inv'[i].inflight[s].resp = NoResp
              /\ inv'[i].inflight[s].sentAt = now
              /\ inv'[i].inflight[s].req.path[2] = SlotNames[s]
              /\ inv'[i].branch[s] = Pending

\* C25: get_full_status issues exactly three reads (battery, location,
\* state), all of them started before any of them completes; each slot of the
\* result is filled from the read of its own name, in whatever order the
\* answers arrive and whichever of them fail.
C25_ThreeReadsPositional ==
    /\ [](\A i \in Procs : FannedOut(i) =>
            /\ ThreeReads(i)
            /\ \A s \in Slots : Positional(i, s)
            /\ inv[i].pc # "failed"
            /\ inv[i].pc = "done" =>
                  /\ AllSettled(inv[i])
                  /\ inv[i].result.content[1].json =
                        [battery |-> SlotOf(inv[i].branch[1]),
                         location |-> SlotOf(inv[i].branch[2]),
                         state |-> SlotOf(inv[i].branch[3])])
    /\ [][\A i \in Procs : StartsTogether(i)]_vars

\* the state read has settled with its payload and the location read with an
\* error while the battery read is still unanswered
C25_Witness ==
    \E i \in Procs :
        /\ FannedOut(i)
        /\ inv[i].pc = "all_settled"
        /\ inv[i].branch[3] = [status |-> "fulfilled",
              value |-> [of |-> <<inv[i].call.vin, "state">>]]
        /\ inv[i].branch[2] # Pending
        /\ inv[i].branch[2].status = "rejected"
        /\ inv[i].branch[1] = Pending
        /\ inv[i].inflight[1] # NoReq
        /\ inv[i].inflight[1].resp = NoResp

ConfigurationFailure == [isError |-> TRUE, error |-> NoTokenMessage]

C26_NoTokenFailsSingleRequest ==
    ~Truthy(env.TESSIE_API_TOKEN) =>
        \A i \in Procs :
            (/\ AttemptsRequest(i)
             /\ inv[i].call.tool \in VehicleTools \ {"get_full_status"}) =>
                /\ inv[i].pc = "failed"
                /\ inv[i].result = ConfigurationFailure

Target(e) == e.path[1]

OrchestrationRequest(e, vin) ==
    \/ IsStatusCheck(e) /\ e.path = <<vin, "status">>
    \/ IsWake(e) /\ e.path = <<vin, "wake">>
    \/ IsCommand(e) /\ Target(e) = vin

\* C27: within one command invocation the status checks, the wake command
\* and the mutating command all target the same vehicle, the VIN the
\* invocation resolved.
C27_OneVehicle ==
    \A i \in Procs : inv[i].call.tool \in CommandTools =>
        /\ \A k \in Indices(i) :
              /\ OrchestrationRequest(Log(i)[k], inv[i].call.vin)
              /\ Target(Log(i)[k]) = Target(Log(i)[1])
        /\ \A s \in Slots : inv[i].inflight[s] # NoReq =>
              Target(inv[i].inflight[s].req) = inv[i].call.vin

\* a lock went through a status check, a wake, a poll and its command for a
\* vehicle that is not the configured default
C27_Witness ==
    \E i \in Procs :
        /\ inv[i].call.tool = "lock"
        /\ inv[i].pc = "done"
        /\ Truthy(env.TESSIE_DEFAULT_VIN)
        /\ inv[i].call.vin # env.TESSIE_DEFAULT_VIN
        /\ \E j, k, m \in Indices(i) :
              /\ j < k /\ k < m
              /\ IsWake(Log(i)[j])
              /\ IsStatusCheck(Log(i)[k])
              /\ IsCommand(Log(i)[m])

CommandIndices(i) == {k \in Indices(i) : IsCommand(Log(i)[k])}

\* the query pair of an option: none when the option is absent
Forwarded(key, val) ==
    IF val = JsUndefined THEN <<>>
    ELSE <<<<key, CASE val = JsBool(TRUE) -> "true"
                    [] val = JsBool(FALSE) -> "false"
                    [] OTHER -> ToString(val.v)>>>>

ForwardedOptions(a) ==
    Forwarded("wait_for_completion", a.wait_for_completion)
        \o Forwarded("max_attempts", a.max_attempts)

\* C28: a command whose orchestration succeeds sends its mutating POST
\* exactly once, whatever wait_for_completion and max_attempts are; the two
\* options are forwarded unchanged as query parameters, left out when
\* absent, and the server neither repeats nor delays the command itself.
C28_CommandSentOnce ==
    \A i \in Procs :
        (inv[i].call.tool \in CommandTools /\ inv[i].orch = "Ready") =>
            LET n == Len(Log(i))
                a == inv[i].call.args
            IN  /\ CommandIndices(i) = {n}
                /\ Log(i)[n].path = <<inv[i].call.vin, "command",
                                      inv[i].call.tool>>
                /\ Log(i)[n].body = NoBody
                /\ Log(i)[n].query =
                      (IF inv[i].call.tool = "set_temperatures"
                       THEN Forwarded("temperature", a.temperature)
                       ELSE <<>>) \o ForwardedOptions(a)
                /\ Log(i)[n - 1].result = "awake"
                /\ inv[i].pc \in {"command", "done", "failed"}
                /\ Cardinality(StatusIndices(i)) = 1 + inv[i].sleeps
                /\ inv[i].pc = "command" =>
                      /\ inv[i].inflight[1] # NoReq
                      /\ inv[i].inflight[1].idx = n

\* a lock with wait_for_completion=true and max_attempts=3 has ended after
\* a wake, with one command request that carries both options
C28_Witness ==
    \E i \in Procs :
        /\ inv[i].call.tool = "lock"
        /\ inv[i].call.args.max_attempts = JsNum(3)
        /\ inv[i].orch = "Ready"
        /\ Finished(i)
        /\ inv[i].sleeps >= 1
        /\ Log(i)[Len(Log(i))].query =
              <<<<"wait_for_completion", "true">>, <<"max_attempts", "3">>>>

\* the requests of invocation i, answered or not
Outbound(i) ==
    {Log(i)[k] : k \in Indices(i)}
        \cup {[method |-> inv[i].inflight[s].req.method,
               path |-> inv[i].inflight[s].req.path] :
                 s \in {t \in Slots : inv[i].inflight[t] # NoReq}}

VinRequiredFailure == [isError |-> TRUE, error |-> VinRequiredMessage]

\* C29: the VIN in the path of an outbound request is never empty: an
\* explicit empty VIN argument resolves like an absent one (to the default,
\* or else to the VIN-required failure before any request), and a vehicle
\* resource URI is matched only with a non-empty VIN part.
C29_VinNeverEmpty ==
    \A i \in Procs :
        /\ (Started(i) /\ inv[i].call.tool \in VehicleTools) =>
              LET d == env.TESSIE_DEFAULT_VIN
              IN  /\ \A e \in Outbound(i) :
                        /\ Len(e.path) >= 2
                        /\ e.path[1] \notin {"", Undefined}
                        /\ e.path[1] = inv[i].call.vin
                  /\ inv[i].call.arg_vin = "" =>
                        IF Truthy(d)
                        THEN /\ inv[i].call.vin = d
                             /\ inv[i].result # VinRequiredFailure
                        ELSE /\ inv[i].result = VinRequiredFailure
                             /\ inv[i].pc = "failed"
                             /\ NoRequest(i)
        /\ (Started(i) /\ inv[i].call.tool = "resources/read"
              /\ inv[i].call.args.uri # VehiclesUri) =>
              LET u == inv[i].call.args.uri
              IN  /\ \A e \in Outbound(i) :
                        /\ e.path = u
                        /\ Len(u) >= 2
                        /\ Front(u) # <<"">>
                  /\ (Len(u) < 2 \/ Front(u) = <<"">>) =>
                        /\ NoRequest(i)
                        /\ inv[i].result =
                              [isError |-> TRUE,
                               error |-> UnknownResourceMessage(u)]

\* a request went out for the default VIN although the argument was the
\* empty string
C29_Witness ==
    \E i \in Procs :
        /\ inv[i].call.tool \in VehicleTools
        /\ inv[i].call.arg_vin = ""
        /\ Len(Log(i)) >= 1
        /\ Log(i)[1].path[1] = env.TESSIE_DEFAULT_VIN
        /\ env.TESSIE_DEFAULT_VIN = "V1"

ReportedAwake ==
    [isError |-> FALSE,
     content |-> <<[type |-> "text", json |-> [status |-> "awake"]]>>]

AwakeIndices(i) ==
    {k \in StatusIndices(i) : Log(i)[k].result = "awake"}

\* C30: wake_vehicle reports {status: "awake"} only if a status check of the
\* same invocation reported awake; for a vehicle found awake by the first
\* check no wake command is sent; when the vehicle is not awake within the
\* ceiling the invocation fails with the wake-timeout error, which names
\* the VIN and the 90 seconds and advises a manual wake_vehicle and a retry.
C30_WakeVehicleReport ==
    \A i \in Procs : inv[i].call.tool = "wake_vehicle" =>
        /\ CommandIndices(i) = {}
        /\ inv[i].pc = "done" =>
              /\ inv[i].result = ReportedAwake
              /\ AwakeIndices(i) = {Len(Log(i))}
        /\ inv[i].result = ReportedAwake => AwakeIndices(i) # {}
        /\ (Len(Log(i)) >= 1 /\ Log(i)[1].result = "awake") =>
              /\ Len(Log(i)) = 1
              /\ WakeIndices(i) = {}
              /\ inv[i].result = ReportedAwake
        /\ inv[i].orch = "TimedOut" =>
              /\ inv[i].pc = "failed"
              /\ AwakeIndices(i) = {}
              /\ inv[i].endedAt >= inv[i].pollStart + 90000
              /\ inv[i].result =
                    [isError |-> TRUE,
                     error |-> <<"Vehicle ", inv[i].call.vin,
                                 " did not wake within ", "90", "s. ",
                                 "Try calling wake_vehicle manually and retrying.">>]

\* a wake_vehicle call has ended with the wake-timeout error
C30_Witness ==
    \E i \in Procs :
        /\ inv[i].call.tool = "wake_vehicle"
        /\ inv[i].orch = "TimedOut"
        /\ inv[i].pc = "failed"
        /\ Cardinality(WakeIndices(i)) = 1

\* a wake_vehicle call has reported awake after waking and polling
C30_ReportedAfterWake ==
    \E i \in Procs :
        /\ inv[i].call.tool = "wake_vehicle"
        /\ inv[i].result = ReportedAwake
        /\ inv[i].sleeps >= 2

====
